---- MODULE Spec2Model ----
(***************************************************************************)
(* Transformation, attribution and optimization engine of MMM-Guide        *)
(* (src/dashboard/core), the dashboard session (src/dashboard/pages) and   *)
(* the backend endpoints (src/backend/main.py).                            *)
(* Amounts are integers on a fixed grid; a float                           *)
(* that the code obtains by a division is kept as an exact fraction        *)
(* (numerator over a positive denominator), so that every comparison       *)
(* below is decided by cross-multiplication.  Fractions of the budget are  *)
(* percentages (0.05 is 5), elasticities are tenths (0.2 is 2).            *)
(***************************************************************************)
EXTENDS Integers, Sequences, FiniteSets, TLC

VARIABLES
    \* ---- optimize_budget_marginal_roi: arguments, solver result, return
    total_budget,      \* total_budget argument (grid units)
    channels,          \* channels argument: sequence of channel names
    elasticities,      \* elasticities argument: channel -> tenths
    current_spend,     \* current_spend argument: channel -> amount
    constraints,       \* constraints argument: partial map channel -> <<min_pct, max_pct>>
    result,            \* scipy OptimizeResult of the minimize call
    optimal_spend,     \* returned dict, [num: channel -> Int, den: Int]
    opt_pc,            \* "idle", "called", "returned", "raised"
    \* ---- compute_shapley_values: two calls with the same pairs
    baseline,          \* baseline argument of both calls
    channel_effects,   \* first call's dict: sequence of <<channel, effect>> in insertion order
    channel_effects2,  \* second call's dict: the same pairs, possibly inserted in another order
    shapley,           \* first call's return value
    shapley2,          \* second call's return value
    shap_pc,           \* "idle", "called", "first", "done"
    os_entropy,        \* what an unseeded numpy generator would be seeded with now
    \* ---- geometric_adstock: two calls on spend sequences of equal length
    x,                 \* first call's spend sequence
    x_other,           \* second call's spend sequence
    decay_rate,        \* decay_rate argument, in units of 1/DecayDen
    normalize,         \* normalize argument
    adstocked,         \* first call's return value: sequence of fractions <<num, den>>
    adstocked_other,   \* second call's return value
    adstocked_matrix,  \* geometric_adstock_matrix's return value on the columns x, x_other
    ads_pc,            \* "idle", "called", "first", "done", "matrix", "raised"
    \* ---- hill_function and log_transform on one input array
    hx,                \* the array x passed to both
    hill_K,            \* K argument of hill_function
    hill_S,            \* S argument of hill_function
    hill_out,          \* hill_function's return value: sequence of fractions <<num, den>>
    log_offset,        \* offset argument of log_transform
    log_out,           \* log_transform's return value: sequence of LogOf records
    tr_pc,             \* "idle", "called", "hill", "done"
    \* ---- calculate_expected_lift and the reports of the change per channel
    rep_current,       \* current_spend: channel -> amount
    rep_optimal,       \* optimal_spend: channel -> amount
    rep_numpy,         \* TRUE when the values of optimal_spend are numpy floats
    rep_elasticities,  \* elasticities: channel -> tenths
    current_sales,     \* current_sales argument
    lift,              \* calculate_expected_lift's return value
    api_changes,       \* "changes" of the API response: channel -> change_pct
    page_changes,      \* change_pct per channel in the page's list of recommended changes
    export_rows,       \* 'Change %' per channel in the page's exported plan
    rep_pc,            \* "idle", "called", "lift", "api", "page", "exported", "raised"
    \* ---- create_scenario and compare_scenarios; the scenario lists
    sc_mode,           \* "idle", "api" (create_scenario and the backend's list), "page" (page 8's list)
    allocs,            \* the caller's spend_allocation dicts: object id -> (channel -> amount)
    sc_changes,        \* number of changes the caller has made to its dicts
    sc_elasticities,   \* elasticities: channel -> tenths
    baseline_sales,    \* baseline_sales argument; current_sales on page 8
    scenarios,         \* the stored list of scenarios; spend_allocation is an object id
    created_with,      \* per stored scenario, the value of spend_allocation passed at its creation
    table,             \* compare_scenarios' return value: [made, rows]
    table_inputs,      \* created_with at the time of the compare_scenarios call
    page_scenarios,    \* st.session_state['scenarios'] of page 8
    \* ---- compute_channel_contributions_loglog
    cc_betas,          \* trace_posterior['beta']: chains, each a sequence of draws, each a row of coefficients
    cc_X_media_log,    \* X_media_log, given by its columns
    cc_y_mean,         \* y_mean argument
    cc_names,          \* channel_names argument
    contributions,     \* returned dict: channel -> statistics
    cc_pc,             \* "idle", "called", "returned", "raised"
    \* ---- the dashboard session (dashboard/utils/session_state.py, dashboard/pages)
    session,           \* st.session_state: key -> value; None is 0
    n_fits,            \* number of fit_model calls that returned: the identity of a trace
    n_loads,           \* number of data sets loaded so far: the identity of a data set
    dash_step,         \* the page step that ran last
    held_before,        \* whether the session held a trained model and derived values when the last data load began
    read_elasticities, \* the elasticities pages 07 and 08 last read
    traces_with_beta,  \* the traces whose posterior has a 'beta' variable
    \* ---- the backend session store and its endpoints (backend/main.py)
    session_data,      \* the module-level dict session_data: key -> value
    train_changed,     \* whether the last train call changed session_data
    api_response,      \* the last response: endpoint, status, channel list paired, body
    n_trains,          \* number of train calls that reached the model: the identity of a run
    \* ---- one period of the decomposition table of get_model_results (backend/main.py)
    dec_intercept,     \* intercept_mean, in log-space units
    dec_trend,         \* gamma_trend_mean * trend[i]
    dec_seasonality,   \* np.dot(X_fourier[i], gamma_fourier_mean)
    dec_events,        \* np.dot(X_events[i], gamma_events_mean), 0 without events
    dec_controls,      \* np.dot(X_controls[i], gamma_controls_mean), 0 without controls
    dec_media,         \* beta_mean[j] * X_media_log[i, j] for each channel j
    dec_row,           \* the row of the table: predicted, baseline, one credit per channel
    dec_effect,        \* total_media_effect of the row
    dec_pc,            \* "called" until the row is built
    \* ---- the media transformations of train_model and compute_holdout_metrics (backend/main.py)
    hold_config,       \* per channel: adstock enabled, decay rate, saturation enabled, mean > 0
    hold_means,        \* the type of the X_media_means argument: "dict" or "array"
    train_out,         \* train_model: steps per channel, decay_rates_used, saturation_params_used
    holdout_out,       \* compute_holdout_metrics: steps per channel, or the error it returns
    hold_pc            \* "called", "trained", "done"

optVars == <<total_budget, channels, elasticities, current_spend, constraints,
             result, optimal_spend, opt_pc>>

shapVars == <<baseline, channel_effects, channel_effects2, shapley, shapley2, shap_pc,
              os_entropy>>

adsVars == <<x, x_other, decay_rate, normalize, adstocked, adstocked_other,
             adstocked_matrix, ads_pc>>

trVars == <<hx, hill_K, hill_S, hill_out, log_offset, log_out, tr_pc>>

repVars == <<rep_current, rep_optimal, rep_numpy, rep_elasticities, current_sales, lift, api_changes, page_changes, export_rows, rep_pc>>

scenVars == <<sc_mode, allocs, sc_changes, sc_elasticities, baseline_sales, scenarios, created_with, table, table_inputs, page_scenarios>>

ccVars == <<cc_betas, cc_X_media_log, cc_y_mean, cc_names, contributions, cc_pc>>

dashVars == <<session, n_fits, n_loads, dash_step, held_before, read_elasticities,
             traces_with_beta>>

apiVars == <<session_data, train_changed, api_response, n_trains>>

decVars == <<dec_intercept, dec_trend, dec_seasonality, dec_events, dec_controls, dec_media, dec_row, dec_effect, dec_pc>>

holdVars == <<hold_config, hold_means, train_out, holdout_out, hold_pc>>

vars == <<optVars, shapVars, adsVars, trVars, repVars, scenVars, ccVars, dashVars, apiVars, decVars, holdVars>>

----------------------------------------------------------------------------
(* Generic helpers *)

Range(s) == {s[i] : i \in 1..Len(s)}

Min(a, b) == IF a <= b THEN a ELSE b

Max(a, b) == IF a >= b THEN a ELSE b

\* Python's sum(d.values()) for a dict d
RECURSIVE SumValues(_)
SumValues(d) ==
    IF DOMAIN d = {} THEN 0
    ELSE LET k == CHOOSE k \in DOMAIN d : TRUE
         IN  d[k] + SumValues([j \in DOMAIN d \ {k} |-> d[j]])

----------------------------------------------------------------------------
(* optimize_budget_marginal_roi, src/dashboard/core/optimization.py:38-142 *)

default_min == 5

default_max == 80

\* constraints.get(ch, (default_min, default_max))
ConstraintOf(c, ch) ==
    IF ch \in DOMAIN c THEN c[ch] ELSE <<default_min, default_max>>

\* min_bounds / max_bounds: pct * total_budget, exact on the grid because the
\* budgets used are multiples of 20 and the percentages multiples of 5
min_bounds(B, chs, c) == [ch \in Range(chs) |-> (ConstraintOf(c, ch)[1] * B) \div 100]

max_bounds(B, chs, c) == [ch \in Range(chs) |-> (ConstraintOf(c, ch)[2] * B) \div 100]

\* gradient(x)[ch] as a fraction <<num, den>>: -elasticity/x when x > 0, else 0
gradient(xk, e, ch) == IF xk[ch] > 0 THEN <<-e[ch], xk[ch]>> ELSE <<0, 1>>

\* g1 >= g2 for fractions with positive denominators
FracGE(g1, g2) == g1[1] * g2[2] >= g2[1] * g1[2]

\* The initial guess x0 (lines 106-120) over the common denominator
\* D = total_current * n (or n when nothing is spent): proportional to the
\* current spend, clipped into the bounds, then divided by its own sum.
\* finite is FALSE when that sum is 0: numpy then yields 0/0 = nan (or inf)
\* for every element, with a warning and no exception.
InitialGuess(B, chs, cur, lb, ub) ==
    LET n == Len(chs)
        total_current == SumValues(cur)
        D == IF total_current > 0 THEN total_current * n ELSE n
        raw == [ch \in Range(chs) |->
                  IF total_current > 0
                  THEN (IF ch \in DOMAIN cur THEN cur[ch] * n * B ELSE B * B)
                  ELSE B]
        clipped == [ch \in Range(chs) |-> Min(Max(raw[ch], lb[ch] * D), ub[ch] * D)]
        s == SumValues(clipped)
    IN  [finite |-> s # 0, num |-> clipped, den |-> s]

\* Points of the box lb..ub whose coordinates sum to `left`, as sequences
\* aligned with chs[i..]
RECURSIVE PointsFrom(_, _, _, _, _)
PointsFrom(chs, lb, ub, i, left) ==
    IF i > Len(chs)
    THEN (IF left = 0 THEN {<<>>} ELSE {})
    ELSE UNION { { <<v>> \o rest : rest \in PointsFrom(chs, lb, ub, i + 1, left - v) }
                 : v \in lb[chs[i]]..ub[chs[i]] }

IndexOf(chs, ch) == CHOOSE i \in 1..Len(chs) : chs[i] = ch

\* The points that satisfy the bounds and the budget equality
FeasiblePoints(B, chs, lb, ub) ==
    { [ch \in Range(chs) |-> p[IndexOf(chs, ch)]] : p \in PointsFrom(chs, lb, ub, 1, B) }

\* First-order optimality of xk for min objective s.t. sum(x) = B, lb <= x <= ub,
\* with the jacobian the code passes (jac=gradient): no feasible exchange of
\* budget from channel j to channel i has a negative directional derivative.
Stationary(xk, e, chs, lb, ub) ==
    \A i \in Range(chs) : \A j \in Range(chs) :
        (i # j /\ xk[i] < ub[i] /\ xk[j] > lb[j])
            => FracGE(gradient(xk, e, i), gradient(xk, e, j))

\* The corners of the box
Corners(chs, lb, ub) ==
    { [ch \in Range(chs) |-> IF ch \in S THEN ub[ch] ELSE lb[ch]] : S \in SUBSET Range(chs) }

\* scipy.optimize.minimize(method='SLSQP', jac=gradient, bounds, eq constraint)
\* as called on lines 123-131.  SLSQP keeps its iterate inside the bounds.
\*  - a non-finite x0 stays non-finite through every update: x is nan;
\*  - when no point of the box meets the equality the run ends unsuccessfully
\*    on an iterate of the box (a corner);
\*  - otherwise it ends on a stationary point of the problem.
minimize(B, chs, e, x0, lb, ub) ==
    IF ~x0.finite
    THEN { [success |-> FALSE, nan |-> TRUE, x |-> [ch \in Range(chs) |-> 0]] }
    ELSE IF FeasiblePoints(B, chs, lb, ub) = {}
    THEN { [success |-> FALSE, nan |-> FALSE, x |-> c] : c \in Corners(chs, lb, ub) }
    ELSE { [success |-> TRUE, nan |-> FALSE, x |-> p] :
             p \in { q \in FeasiblePoints(B, chs, lb, ub) : Stationary(q, e, chs, lb, ub) } }

\* SLSQP rejects bounds with lb > ub before it starts (ValueError)
BoundsRejected(chs, lb, ub) == \E ch \in Range(chs) : lb[ch] > ub[ch]

\* Lines 133-142: clamp at zero (max(0, nan) is 0), then rescale to the
\* budget when anything was allocated.
Renormalize(B, chs, r) ==
    LET clamped == [ch \in Range(chs) |-> IF r.nan THEN 0 ELSE Max(0, r.x[ch])]
        total_allocated == SumValues(clamped)
    IN  IF total_allocated > 0
        THEN [num |-> [ch \in Range(chs) |-> clamped[ch] * B], den |-> total_allocated]
        ELSE [num |-> clamped, den |-> 1]

NoResult == [success |-> FALSE, nan |-> FALSE, x |-> <<>>]

NoSpend == [num |-> <<>>, den |-> 1]

\* The call returns a dict: the solver's status is never read
OptimizeReturns ==
    /\ opt_pc = "called"
    /\ LET lb == min_bounds(total_budget, channels, constraints)
           ub == max_bounds(total_budget, channels, constraints)
           x0 == InitialGuess(total_budget, channels, current_spend, lb, ub)
       IN  /\ ~BoundsRejected(channels, lb, ub)
           /\ \E r \in minimize(total_budget, channels, elasticities, x0, lb, ub) :
                 /\ result' = r
                 /\ optimal_spend' = Renormalize(total_budget, channels, r)
    /\ opt_pc' = "returned"
    /\ UNCHANGED <<total_budget, channels, elasticities, current_spend, constraints>>
    /\ UNCHANGED <<shapVars, adsVars, trVars, repVars, scenVars, ccVars, dashVars, apiVars, decVars, holdVars>>

\* The call ends with the solver's exception
OptimizeRaises ==
    /\ opt_pc = "called"
    /\ BoundsRejected(channels,
                      min_bounds(total_budget, channels, constraints),
                      max_bounds(total_budget, channels, constraints))
    /\ opt_pc' = "raised"
    /\ UNCHANGED <<total_budget, channels, elasticities, current_spend, constraints,
                   result, optimal_spend>>
    /\ UNCHANGED <<shapVars, adsVars, trVars, repVars, scenVars, ccVars, dashVars, apiVars, decVars, holdVars>>

IdleOpt ==
    /\ total_budget = 0
    /\ channels = <<>>
    /\ elasticities = <<>>
    /\ current_spend = <<>>
    /\ constraints = <<>>
    /\ result = NoResult
    /\ optimal_spend = NoSpend
    /\ opt_pc = "idle"

IdleShapley ==
    /\ baseline = 0
    /\ channel_effects = <<>>
    /\ channel_effects2 = <<>>
    /\ shapley = <<>>
    /\ shapley2 = <<>>
    /\ shap_pc = "idle"
    /\ os_entropy = 0

IdleAdstock ==
    /\ x = <<>>
    /\ x_other = <<>>
    /\ decay_rate = 0
    /\ normalize = FALSE
    /\ adstocked = <<>>
    /\ adstocked_other = <<>>
    /\ adstocked_matrix = <<>>
    /\ ads_pc = "idle"

IdleTransform ==
    /\ hx = <<>>
    /\ hill_K = 1
    /\ hill_S = 1
    /\ hill_out = <<>>
    /\ log_offset = 1
    /\ log_out = <<>>
    /\ tr_pc = "idle"

IdleReport ==
    /\ rep_current = <<>>
    /\ rep_optimal = <<>>
    /\ rep_numpy = FALSE
    /\ rep_elasticities = <<>>
    /\ current_sales = 0
    /\ lift = <<>>
    /\ api_changes = <<>>
    /\ page_changes = <<>>
    /\ export_rows = <<>>
    /\ rep_pc = "idle"

\* No DataFrame yet
NoTable == [made |-> FALSE, rows |-> <<>>]

IdleScenario ==
    /\ sc_mode = "idle"
    /\ allocs = <<>>
    /\ sc_changes = 0
    /\ sc_elasticities = <<>>
    /\ baseline_sales = 0
    /\ scenarios = <<>>
    /\ created_with = <<>>
    /\ table = NoTable
    /\ table_inputs = <<>>
    /\ page_scenarios = <<>>

IdleContributions ==
    /\ cc_betas = <<>>
    /\ cc_X_media_log = <<>>
    /\ cc_y_mean = 0
    /\ cc_names = <<>>
    /\ contributions = <<>>
    /\ cc_pc = "idle"

IdleDashboard ==
    /\ session = <<>>
    /\ n_fits = 0
    /\ n_loads = 0
    /\ dash_step = "idle"
    /\ held_before = FALSE
    /\ read_elasticities = 0
    /\ traces_with_beta = {}

IdleApi ==
    /\ session_data = <<>>
    /\ train_changed = FALSE
    /\ api_response = <<>>
    /\ n_trains = 0

IdleDecomposition ==
    /\ dec_intercept = 0
    /\ dec_trend = 0
    /\ dec_seasonality = 0
    /\ dec_events = 0
    /\ dec_controls = 0
    /\ dec_media = <<>>
    /\ dec_row = <<>>
    /\ dec_effect = <<0, 1>>
    /\ dec_pc = "idle"

IdleHoldout ==
    /\ hold_config = <<>>
    /\ hold_means = "dict"
    /\ train_out = <<>>
    /\ holdout_out = <<>>
    /\ hold_pc = "idle"

ChannelLists == { <<"A", "B">>, <<"A", "B", "C">> }

Budgets == {-60, 0, 60}

ElasticityValues == {1, 2}

SpendValues == {0, 400, 600}

ConstraintChoices == { <<0, 0>>, <<0, 100>>, <<10, 40>>, <<50, 100>>, <<60, 100>> }

PartialMaps(keys, values) == UNION { [S -> values] : S \in SUBSET keys }

InitOpt ==
    /\ IdleHoldout
    /\ IdleDecomposition
    /\ IdleApi
    /\ IdleDashboard
    /\ IdleContributions
    /\ IdleScenario
    /\ IdleReport
    /\ IdleTransform
    /\ IdleShapley
    /\ IdleAdstock
    /\ channels \in ChannelLists
    /\ total_budget \in Budgets
    /\ elasticities \in [Range(channels) -> ElasticityValues]
    /\ current_spend \in [Range(channels) -> SpendValues]
    /\ constraints \in PartialMaps(Range(channels), ConstraintChoices)
    /\ Len(channels) = 3 =>
          /\ total_budget = 60
          /\ \A ch \in Range(channels) : current_spend[ch] = 600
          /\ \A ch \in DOMAIN constraints : constraints[ch] \in { <<0, 0>>, <<10, 40>>, <<50, 100>> }
    /\ result = NoResult
    /\ optimal_spend = NoSpend
    /\ opt_pc = "called"

NextOpt == OptimizeReturns \/ OptimizeRaises

SpecOpt == InitOpt /\ [][NextOpt]_vars

----------------------------------------------------------------------------
(* compute_shapley_values, src/dashboard/core/attribution.py:59-157.       *)
(* A Shapley value is the exact fraction num/den: den is n! under the      *)
(* exact method and n_samples under the sampling method.                   *)

ExactLimit == 10

n_samples == 1000

Seed == 42

\* list(channel_effects.keys())
Keys(ce) == [i \in 1..Len(ce) |-> ce[i][1]]

\* channel_effects[ch]
Effect(ce, ch) == ce[CHOOSE i \in 1..Len(ce) : ce[i][1] = ch][2]

\* sum(channel_effects.values())
RECURSIVE SumEffects(_, _)
SumEffects(ce, i) == IF i > Len(ce) THEN 0 ELSE ce[i][2] + SumEffects(ce, i + 1)

RECURSIVE Factorial(_)
Factorial(k) == IF k <= 0 THEN 1 ELSE k * Factorial(k - 1)

\* Mutant of value_function: a coalition of two or more channels is worth
\* one unit more than the sum of its effects
ValueWithSynergy(base, ce, coalition) ==
    base + SumEffects(SelectSeq(ce, LAMBDA p : p[1] \in coalition), 1)
         + (IF Cardinality(coalition) >= 2 THEN 1 ELSE 0)

\* value_function(coalition), lines 89-96
RECURSIVE value_function(_, _, _)
value_function(base, ce, coalition) ==
    IF coalition = {} THEN base
    ELSE LET ch == CHOOSE c \in coalition : TRUE
         IN  Effect(ce, ch) + value_function(base, ce, coalition \ {ch})

\* Mutants of Others: only the channels listed after (before) the channel
OthersAfter(chs, channel) ==
    LET k == CHOOSE i \in 1..Len(chs) : chs[i] = channel
    IN  SubSeq(chs, k + 1, Len(chs))

OthersBefore(chs, channel) ==
    LET k == CHOOSE i \in 1..Len(chs) : chs[i] = channel
    IN  SubSeq(chs, 1, k - 1)

\* others = [ch for ch in channels if ch != channel], line 101
Others(chs, channel) == SelectSeq(chs, LAMBDA c : c # channel)

\* Mutant of ShapleyWeight: the factor (n - |S| - 1)! is left out
ShapleyWeightNoComplement(s, n) == Factorial(s)

\* numerator of the weight |S|! * (n - |S| - 1)! / n!, lines 113-117
ShapleyWeight(s, n) == Factorial(s) * Factorial(n - s - 1)

\* The double loop of lines 104-119 for one channel: the sum over every subset
\* of others of weight * marginal, as a numerator over n!.  The subsets are
\* enumerated by deciding membership of others[i] in turn.
RECURSIVE MarginalSum(_, _, _, _, _, _, _)
MarginalSum(base, ce, n, channel, others, i, subset_set) ==
    IF i > Len(others)
    THEN LET with_channel == subset_set \cup {channel}
             marginal == value_function(base, ce, with_channel)
                            - value_function(base, ce, subset_set)
         IN  ShapleyWeight(Cardinality(subset_set), n) * marginal
    ELSE MarginalSum(base, ce, n, channel, others, i + 1, subset_set)
         + MarginalSum(base, ce, n, channel, others, i + 1, subset_set \cup {others[i]})

\* rng.permutation(channels) for draw k of a generator seeded with `seed`.
\* numpy's bit stream is not reproduced: the draw is a fixed function of the
\* seed and of the number of draws made so far (a rotation, reversed on odd
\* draws).
Permutation(seed, k, chs) ==
    LET n == Len(chs)
        r == (seed + k) % n
        rot == [i \in 1..n |-> chs[((i - 1 + r) % n) + 1]]
    IN  IF k % 2 = 1 THEN [i \in 1..n |-> rot[n + 1 - i]] ELSE rot

\* Lines 147-151: walk one permutation, crediting each channel with the
\* increase of the coalition value when it joins
RECURSIVE WalkPermutation(_, _, _, _, _)
WalkPermutation(ce, perm, i, current_value, acc) ==
    IF i > Len(perm) THEN acc
    ELSE LET channel == perm[i]
             new_value == current_value + Effect(ce, channel)
         IN  WalkPermutation(ce, perm, i + 1, new_value,
                 [acc EXCEPT ![channel] = @ + (new_value - current_value)])

\* Lines 142-151: the loop over the samples lo .. hi-1, in ascending order,
\* each sample adding to the totals left by the one before.  The range is
\* split in halves only to keep the depth of the evaluation logarithmic.
RECURSIVE SampleLoop(_, _, _, _, _, _)
SampleLoop(base, ce, seed, lo, hi, acc) ==
    IF lo >= hi THEN acc
    ELSE IF hi = lo + 1
    THEN WalkPermutation(ce, Permutation(seed, lo, Keys(ce)), 1, base, acc)
    ELSE LET mid == (lo + hi) \div 2
             left == SampleLoop(base, ce, seed, lo, mid, acc)
         IN  \* the test is always true: it has the first half evaluated
             \* before the second half starts
             IF DOMAIN left = DOMAIN acc
             THEN SampleLoop(base, ce, seed, mid, hi, left)
             ELSE left

\* np.random.default_rng(seed): the state a new generator starts from is the
\* seed when one is given and fresh OS entropy otherwise (seed=None is
\* written as a negative number)
default_rng(seed, entropy) == IF seed < 0 THEN entropy ELSE seed

\* Mutant of SamplingGenerator: no seed is given
UnseededGenerator(entropy) == default_rng(-1, entropy)

\* The generator of line 140
SamplingGenerator(entropy) == default_rng(Seed, entropy)

\* _shapley_sampling, lines 126-157
shapley_sampling(base, ce, samples, entropy) ==
    LET chs == Keys(ce)
        zero == [ch \in Range(chs) |-> 0]
        rng == SamplingGenerator(entropy)
    IN  [method |-> "sampling", samples |-> samples, seed |-> rng,
         num |-> SampleLoop(base, ce, rng, 0, samples, zero), den |-> samples]

\* The test of line 82
UseSampling(n) == n > ExactLimit

\* compute_shapley_values, lines 76-123
compute_shapley_values(base, ce, entropy) ==
    LET chs == Keys(ce)
        n == Len(chs)
    IN  IF n = 0
        THEN [method |-> "empty", samples |-> 0, seed |-> 0, num |-> <<>>, den |-> 1]
        ELSE IF UseSampling(n)
        THEN shapley_sampling(base, ce, n_samples, entropy)
        ELSE [method |-> "exact", samples |-> 0, seed |-> 0,
              num |-> [ch \in Range(chs) |->
                         MarginalSum(base, ce, n, ch, Others(chs, ch), 1, {})],
              den |-> Factorial(n)]

EntropyValues == {1, 2}

\* The OS entropy differs from one call to the next
ShapleyFirstCall ==
    /\ shap_pc = "called"
    /\ shapley' = compute_shapley_values(baseline, channel_effects, os_entropy)
    /\ shap_pc' = "first"
    /\ os_entropy' \in EntropyValues \ {os_entropy}
    /\ UNCHANGED <<baseline, channel_effects, channel_effects2, shapley2>>
    /\ UNCHANGED <<optVars, adsVars, trVars, repVars, scenVars, ccVars, dashVars, apiVars, decVars, holdVars>>

ShapleySecondCall ==
    /\ shap_pc = "first"
    /\ shapley2' = compute_shapley_values(baseline, channel_effects2, os_entropy)
    /\ shap_pc' = "done"
    /\ os_entropy' \in EntropyValues \ {os_entropy}
    /\ UNCHANGED <<baseline, channel_effects, channel_effects2, shapley>>
    /\ UNCHANGED <<optVars, adsVars, trVars, repVars, scenVars, ccVars, dashVars, apiVars, decVars, holdVars>>

ChannelNames == <<"A", "B", "C", "D", "E", "F", "G", "H", "I", "J", "K", "L">>

MaxSmallN == 3

MaxEffect == 2

Baselines == {0, 7}

\* Every reordering of a sequence
Reorderings(s) ==
    { [i \in 1..Len(s) |-> s[p[i]]] :
        p \in { q \in [1..Len(s) -> 1..Len(s)] :
                  \A a \in 1..Len(s) : \A b \in 1..Len(s) : q[a] = q[b] => a = b } }

Reversed(s) == [i \in 1..Len(s) |-> s[Len(s) + 1 - i]]

\* Small dicts with every choice of effects, and dicts on both sides of the
\* exact/sampling limit whose effects follow a few patterns
SmallDicts ==
    UNION { { [i \in 1..n |-> <<ChannelNames[i], f[i]>>] : f \in [1..n -> 0..MaxEffect] }
            : n \in 0..MaxSmallN }

WideDicts ==
    { [i \in 1..n |-> <<ChannelNames[i], (i * m + c) % (MaxEffect + 1)>>] :
        n \in {ExactLimit, ExactLimit + 1}, m \in {0, 1}, c \in {1, 2} }

InitShapley ==
    /\ IdleHoldout
    /\ IdleDecomposition
    /\ IdleApi
    /\ IdleDashboard
    /\ IdleContributions
    /\ IdleScenario
    /\ IdleReport
    /\ IdleTransform
    /\ IdleOpt
    /\ IdleAdstock
    /\ os_entropy \in EntropyValues
    /\ baseline \in Baselines
    /\ \/ /\ channel_effects \in SmallDicts
          /\ channel_effects2 \in Reorderings(channel_effects)
       \/ /\ channel_effects \in WideDicts
          /\ channel_effects2 \in {channel_effects, Reversed(channel_effects)}
    /\ shapley = <<>>
    /\ shapley2 = <<>>
    /\ shap_pc = "called"

NextShapley == ShapleyFirstCall \/ ShapleySecondCall

SpecShapley == InitShapley /\ [][NextShapley]_vars


----------------------------------------------------------------------------
(* geometric_adstock, src/dashboard/core/transformations.py:8-38.          *)
(* decay_rate is d/DecayDen; every element of the result is an exact       *)
(* fraction <<num, den>> with den > 0.                                     *)

DecayDen == 4

FracEq(a, b) == a[1] * b[2] = b[1] * a[2]

\* Mutant of AdstockStep: the carryover is taken from the previous spend
AdstockStepOnSpend(xs, d, t, out) == <<xs[t] * DecayDen + d * xs[t - 1], DecayDen>>

\* Mutant of AdstockStep: the spend of the next period is read
AdstockStepLookahead(xs, d, t, out) ==
    LET prev == out[t - 1]
        nxt == IF t < Len(xs) THEN xs[t + 1] ELSE xs[t]
    IN  <<nxt * prev[2] * DecayDen + d * prev[1], prev[2] * DecayDen>>

\* Mutant of AdstockStep: the carryover is subtracted
AdstockStepSubtracting(xs, d, t, out) ==
    LET prev == out[t - 1]
    IN  <<xs[t] * prev[2] * DecayDen - d * prev[1], prev[2] * DecayDen>>

\* x[t] + decay_rate * adstocked[t - 1], line 33
AdstockStep(xs, d, t, out) ==
    LET prev == out[t - 1]
    IN  <<xs[t] * prev[2] * DecayDen + d * prev[1], prev[2] * DecayDen>>

\* The loop of lines 32-33 (t runs over 2..n here, the code's 1..n-1)
RECURSIVE AdstockLoop(_, _, _, _)
AdstockLoop(xs, d, t, out) ==
    IF t > Len(xs) THEN out
    ELSE AdstockLoop(xs, d, t + 1, [out EXCEPT ![t] = AdstockStep(xs, d, t, out)])

\* adstocked * (1 - decay_rate), line 36
Normalized(out, d) ==
    [t \in 1..Len(out) |-> <<out[t][1] * (DecayDen - d), out[t][2] * DecayDen>>]

\* geometric_adstock for a non-empty x, lines 28-38
geometric_adstock(xs, d, norm) ==
    LET zeros == [t \in 1..Len(xs) |-> <<0, 1>>]
        first == [zeros EXCEPT ![1] = <<xs[1], 1>>]
        out == AdstockLoop(xs, d, 2, first)
    IN  IF norm THEN Normalized(out, d) ELSE out

\* Mutant of ResultBuffer: adstocked is the array x itself
ResultBufferIsInput(xs) == "input"

\* adstocked = np.zeros(n), line 29: what the loop writes to is a new array
ResultBuffer(xs) == "new"

\* decay_rates as the loop of lines 63-64 indexes it: a number is spread
\* over the channels by np.full, lines 59-60
BroadcastRates(decay_rates, n_channels) ==
    IF decay_rates.number THEN [j \in 1..n_channels |-> decay_rates.value]
    ELSE decay_rates.value

\* geometric_adstock_matrix, lines 57-66; X is given by its columns
geometric_adstock_matrix(X, decay_rates, norm) ==
    LET rates == BroadcastRates(decay_rates, Len(X))
    IN  [j \in 1..Len(X) |-> geometric_adstock(X[j], rates[j], norm)]

AdstockFirstCall ==
    /\ ads_pc = "called"
    /\ Len(x) > 0
    /\ adstocked' = geometric_adstock(x, decay_rate, normalize)
    /\ x' = IF ResultBuffer(x) = "new" THEN x
            ELSE [t \in 1..Len(x) |-> adstocked'[t][1]]   \* written through, as numerators
    /\ ads_pc' = "first"
    /\ UNCHANGED <<x_other, decay_rate, normalize, adstocked_other, adstocked_matrix>>
    /\ UNCHANGED <<optVars, shapVars, trVars, repVars, scenVars, ccVars, dashVars, apiVars, decVars, holdVars>>

AdstockSecondCall ==
    /\ ads_pc = "first"
    /\ adstocked_other' = geometric_adstock(x_other, decay_rate, normalize)
    /\ ads_pc' = "done"
    /\ UNCHANGED <<x, x_other, decay_rate, normalize, adstocked, adstocked_matrix>>
    /\ UNCHANGED <<optVars, shapVars, trVars, repVars, scenVars, ccVars, dashVars, apiVars, decVars, holdVars>>

\* geometric_adstock_matrix on the matrix with the columns x and x_other,
\* with one rate for all channels or an array of rates
AdstockMatrixCall ==
    /\ ads_pc = "done"
    /\ \E decay_rates \in { [number |-> TRUE, value |-> decay_rate],
                             [number |-> FALSE, value |-> <<decay_rate, 0>>] } :
          adstocked_matrix' = geometric_adstock_matrix(<<x, x_other>>, decay_rates, normalize)
    /\ ads_pc' = "matrix"
    /\ UNCHANGED <<x, x_other, decay_rate, normalize, adstocked, adstocked_other>>
    /\ UNCHANGED <<optVars, shapVars, trVars, repVars, scenVars, ccVars, dashVars, apiVars, decVars, holdVars>>

\* adstocked[0] = x[0] on an empty array: IndexError, line 30
AdstockRaises ==
    /\ ads_pc = "called"
    /\ Len(x) = 0
    /\ ads_pc' = "raised"
    /\ UNCHANGED <<x, x_other, decay_rate, normalize, adstocked, adstocked_other,
                   adstocked_matrix>>
    /\ UNCHANGED <<optVars, shapVars, trVars, repVars, scenVars, ccVars, dashVars, apiVars, decVars, holdVars>>

MaxLen == 3

MaxSpend == 2

SeqsUpTo(S, n) == UNION { [1..k -> S] : k \in 0..n }

\* Rates 0, 1/DecayDen, ..., 1 and one rate above 1
DecayRates == 0..(DecayDen + 1)

InitAdstock ==
    /\ IdleHoldout
    /\ IdleDecomposition
    /\ IdleApi
    /\ IdleDashboard
    /\ IdleContributions
    /\ IdleScenario
    /\ IdleReport
    /\ IdleTransform
    /\ IdleOpt
    /\ IdleShapley
    /\ x \in SeqsUpTo(0..MaxSpend, MaxLen)
    /\ x_other \in [1..Len(x) -> 0..MaxSpend]
    /\ decay_rate \in DecayRates
    /\ normalize \in BOOLEAN
    /\ adstocked = <<>>
    /\ adstocked_other = <<>>
    /\ adstocked_matrix = <<>>
    /\ ads_pc = "called"

NextAdstock ==
    \/ AdstockFirstCall
    \/ AdstockSecondCall
    \/ AdstockMatrixCall
    \/ AdstockRaises

SpecAdstock == InitAdstock /\ [][NextAdstock]_vars


----------------------------------------------------------------------------
(* hill_function and log_transform,                                        *)
(* src/dashboard/core/transformations.py:69-129.  Both work element by     *)
(* element on an array; a Hill value is the exact fraction <<num, den>>,   *)
(* a log value is kept as the argument the logarithm was taken of.         *)

RECURSIVE Pow(_, _)
Pow(b, e) == IF e = 0 THEN 1 ELSE b * Pow(b, e - 1)

\* Mutant of hill_function: the denominator lacks x ** S
HillUnsaturated(xs, K, S) ==
    [i \in 1..Len(xs) |-> <<Pow(xs[i], S), Pow(K, S)>>]

\* x ** S / (K ** S + x ** S), line 88
hill_function(xs, K, S) ==
    [i \in 1..Len(xs) |-> <<Pow(xs[i], S), Pow(K, S) + Pow(xs[i], S)>>]

\* np.log of one element: finite above 0, -inf at 0, nan below 0; numpy
\* warns and raises nothing
LogOf(v) ==
    IF v > 0 THEN [kind |-> "finite", arg |-> v]
    ELSE IF v = 0 THEN [kind |-> "-inf", arg |-> 0]
    ELSE [kind |-> "nan", arg |-> 0]

\* np.log(x + offset), line 129
log_transform(xs, offset) == [i \in 1..Len(xs) |-> LogOf(xs[i] + offset)]

HillCall ==
    /\ tr_pc = "called"
    /\ hill_out' = hill_function(hx, hill_K, hill_S)
    /\ tr_pc' = "hill"
    /\ UNCHANGED <<hx, hill_K, hill_S, log_offset, log_out>>
    /\ UNCHANGED <<optVars, shapVars, adsVars, repVars, scenVars, ccVars, dashVars, apiVars, decVars, holdVars>>

LogCall ==
    /\ tr_pc = "hill"
    /\ log_out' = log_transform(hx, log_offset)
    /\ tr_pc' = "done"
    /\ UNCHANGED <<hx, hill_K, hill_S, hill_out, log_offset>>
    /\ UNCHANGED <<optVars, shapVars, adsVars, repVars, scenVars, ccVars, dashVars, apiVars, decVars, holdVars>>

MaxPoints == 2

MaxX == 3

MaxK == 3

MaxShape == 3

Offsets == {-1, 0, 1}

InitTransform ==
    /\ IdleHoldout
    /\ IdleDecomposition
    /\ IdleApi
    /\ IdleDashboard
    /\ IdleContributions
    /\ IdleScenario
    /\ IdleReport
    /\ IdleOpt
    /\ IdleShapley
    /\ IdleAdstock
    /\ IdleReport
    /\ IdleScenario
    /\ hx \in SeqsUpTo(0..MaxX, MaxPoints)
    /\ hill_K \in 0..MaxK
    /\ hill_S \in 1..MaxShape
    /\ hill_out = <<>>
    /\ log_offset \in Offsets
    /\ log_out = <<>>
    /\ tr_pc = "called"

NextTransform == HillCall \/ LogCall

SpecTransform == InitTransform /\ [][NextTransform]_vars

----------------------------------------------------------------------------
(* calculate_expected_lift, src/dashboard/core/optimization.py:145-184,    *)
(* and the three places that report a channel's percentage change:         *)
(* src/backend/main.py:1975-1983 and                                       *)
(* src/dashboard/pages/07_Budget_Optimization.py:203-206, 220-230.         *)
(* A float is the exact fraction <<num, den>>.                             *)

\* dict.get(key, default)
Get(map, key, default) == IF key \in DOMAIN map THEN map[key] ELSE default

FracAdd(a, b) == <<a[1] * b[2] + b[1] * a[2], a[2] * b[2]>>

\* Mutant of pct_change_sales: the change is taken relative to the optimal spend
PctChangeOfOptimal(e, curr, opt) == <<e * (opt - curr), 10 * (IF opt = 0 THEN 1 ELSE opt)>>

\* elasticities[channel] * (opt - curr) / curr, lines 172-173
pct_change_sales(e, curr, opt) == <<e * (opt - curr), 10 * curr>>

\* The loop of lines 167-174 over the channels of elasticities still to visit
RECURSIVE LiftLoop(_, _, _, _, _)
LiftLoop(cur, optm, elast, todo, total_pct_change) ==
    IF todo = {} THEN total_pct_change
    ELSE LET channel == CHOOSE c \in todo : TRUE
             curr == Get(cur, channel, 0)
             opt == Get(optm, channel, 0)
             total == IF curr > 0
                      THEN FracAdd(total_pct_change, pct_change_sales(elast[channel], curr, opt))
                      ELSE total_pct_change
         IN  LiftLoop(cur, optm, elast, todo \ {channel}, total)

\* lines 165-184
calculate_expected_lift(cur, optm, elast, sales) ==
    LET total_pct_change == LiftLoop(cur, optm, elast, DOMAIN elast, <<0, 1>>)
        expected_sales == <<sales * (total_pct_change[2] + total_pct_change[1]),
                            total_pct_change[2]>>
    IN  [current_sales |-> sales,
         expected_sales |-> expected_sales,
         lift |-> <<expected_sales[1] - sales * expected_sales[2], expected_sales[2]>>,
         lift_pct |-> <<total_pct_change[1] * 100, total_pct_change[2]>>]

Finite(num, den) == [kind |-> "finite", num |-> num, den |-> den]

\* (opt - curr) / curr * 100 if curr > 0 else 0:
\* main.py:1979-1980 and 07_Budget_Optimization.py:206
GuardedChange(curr, opt) ==
    IF curr > 0 THEN Finite((opt - curr) * 100, curr) ELSE Finite(0, 1)

\* (optimal_spend[ch] - current_spend[ch]) / current_spend[ch] * 100,
\* 07_Budget_Optimization.py:227.  A numpy float divided by 0.0 is inf or
\* nan with a warning; a Python number divided by 0.0 raises.
UnguardedChange(curr, opt, numpy) ==
    IF curr # 0 THEN Finite((opt - curr) * 100, curr)
    ELSE IF ~numpy THEN [kind |-> "ZeroDivisionError"]
    ELSE IF opt > 0 THEN [kind |-> "inf"]
    ELSE IF opt < 0 THEN [kind |-> "-inf"]
    ELSE [kind |-> "nan"]

LiftCall ==
    /\ rep_pc = "called"
    /\ lift' = calculate_expected_lift(rep_current, rep_optimal, rep_elasticities,
                                       current_sales)
    /\ rep_pc' = "lift"
    /\ UNCHANGED <<rep_current, rep_optimal, rep_numpy, rep_elasticities, current_sales,
                   api_changes, page_changes, export_rows>>
    /\ UNCHANGED <<optVars, shapVars, adsVars, trVars, scenVars, ccVars, dashVars, apiVars, decVars, holdVars>>

\* The "changes" object of the optimize response, main.py:1975-1983
ApiChanges ==
    /\ rep_pc = "lift"
    /\ api_changes' = [col \in DOMAIN rep_current |->
                          GuardedChange(rep_current[col], rep_optimal[col])]
    /\ rep_pc' = "api"
    /\ UNCHANGED <<rep_current, rep_optimal, rep_numpy, rep_elasticities, current_sales,
                   lift, page_changes, export_rows>>
    /\ UNCHANGED <<optVars, shapVars, adsVars, trVars, scenVars, ccVars, dashVars, apiVars, decVars, holdVars>>

\* The list of recommended changes, 07_Budget_Optimization.py:203-206
PageChanges ==
    /\ rep_pc = "api"
    /\ page_changes' = [ch \in DOMAIN rep_current |->
                           GuardedChange(rep_current[ch], rep_optimal[ch])]
    /\ rep_pc' = "page"
    /\ UNCHANGED <<rep_current, rep_optimal, rep_numpy, rep_elasticities, current_sales,
                   lift, api_changes, export_rows>>
    /\ UNCHANGED <<optVars, shapVars, adsVars, trVars, scenVars, ccVars, dashVars, apiVars, decVars, holdVars>>

ExportRows ==
    [ch \in DOMAIN rep_current |->
        UnguardedChange(rep_current[ch], rep_optimal[ch], rep_numpy)]

ExportFails == \E ch \in DOMAIN rep_current : ExportRows[ch].kind = "ZeroDivisionError"

\* The exported plan, 07_Budget_Optimization.py:220-230
ExportPlan ==
    /\ rep_pc = "page"
    /\ ~ExportFails
    /\ export_rows' = ExportRows
    /\ rep_pc' = "exported"
    /\ UNCHANGED <<rep_current, rep_optimal, rep_numpy, rep_elasticities, current_sales,
                   lift, api_changes, page_changes>>
    /\ UNCHANGED <<optVars, shapVars, adsVars, trVars, scenVars, ccVars, dashVars, apiVars, decVars, holdVars>>

\* The list comprehension of lines 222-230 ends with ZeroDivisionError
ExportRaises ==
    /\ rep_pc = "page"
    /\ ExportFails
    /\ rep_pc' = "raised"
    /\ UNCHANGED <<rep_current, rep_optimal, rep_numpy, rep_elasticities, current_sales,
                   lift, api_changes, page_changes, export_rows>>
    /\ UNCHANGED <<optVars, shapVars, adsVars, trVars, scenVars, ccVars, dashVars, apiVars, decVars, holdVars>>

MaxCurrent == 2

MaxOptimal == 3

SalesValues == {0, 100}

ReportChannels == {"A", "B"}

\* elasticities may name a channel that has no spend entry
ElasticityKeys == {ReportChannels, ReportChannels \cup {"C"}}

InitReport ==
    /\ IdleHoldout
    /\ IdleDecomposition
    /\ IdleApi
    /\ IdleDashboard
    /\ IdleContributions
    /\ IdleScenario
    /\ IdleOpt
    /\ IdleShapley
    /\ IdleAdstock
    /\ IdleTransform
    /\ IdleScenario
    /\ rep_current \in [ReportChannels -> 0..MaxCurrent]
    /\ rep_optimal \in [ReportChannels -> 0..MaxOptimal]
    /\ rep_numpy \in BOOLEAN
    /\ \E keys \in ElasticityKeys : rep_elasticities \in [keys -> ElasticityValues]
    /\ current_sales \in SalesValues
    /\ lift = <<>>
    /\ api_changes = <<>>
    /\ page_changes = <<>>
    /\ export_rows = <<>>
    /\ rep_pc = "called"

NextReport == LiftCall \/ ApiChanges \/ PageChanges \/ ExportPlan \/ ExportRaises

SpecReport == InitReport /\ [][NextReport]_vars

----------------------------------------------------------------------------
(* create_scenario and compare_scenarios,                                  *)
(* src/dashboard/core/optimization.py:187-249, with the list the backend   *)
(* keeps them in (src/backend/main.py:2022-2040) and the list of           *)
(* src/dashboard/pages/08_Scenario_Planning.py:49-56, 182-206.             *)
(* A Python dict is an object: allocs is the heap of the caller's dicts    *)
(* and a scenario made by create_scenario holds the id of the dict it was  *)
(* given.                                                                  *)

\* scenario['spend_allocation'] read through the reference
StoredAllocation(heap, id) == heap[id]

\* The loop of lines 209-213: one factor 1 + elasticity * 0.1 for each
\* channel with a positive spend and an elasticity
RECURSIVE projected_multiplier(_, _, _)
projected_multiplier(spend_allocation, elast, todo) ==
    IF todo = {} THEN <<1, 1>>
    ELSE LET channel == CHOOSE c \in todo : TRUE
             rest == projected_multiplier(spend_allocation, elast, todo \ {channel})
         IN  IF spend_allocation[channel] > 0 /\ channel \in DOMAIN elast
             THEN <<rest[1] * (100 + elast[channel]), rest[2] * 100>>
             ELSE rest

\* lines 205-223; the returned dict holds the spend_allocation object itself
create_scenario(name, heap, id, elast, sales) ==
    LET spend_allocation == heap[id]
        total_spend == SumValues(spend_allocation)
        multiplier == projected_multiplier(spend_allocation, elast, DOMAIN spend_allocation)
        projected_sales == <<sales * multiplier[1], multiplier[2]>>
    IN  [name |-> name,
         spend_allocation |-> id,
         total_spend |-> total_spend,
         projected_sales |-> projected_sales,
         roi |-> IF total_spend > 0
                 THEN <<projected_sales[1], projected_sales[2] * total_spend>>
                 ELSE <<0, 1>>]

\* lines 236-249: one row per scenario, in list order; the column
\* spend_<channel> of a row is spend[channel]
compare_scenarios(list, heap) ==
    [i \in 1..Len(list) |->
        [scenario |-> list[i].name,
         total_spend |-> list[i].total_spend,
         projected_sales |-> list[i].projected_sales,
         roi |-> list[i].roi,
         spend |-> StoredAllocation(heap, list[i].spend_allocation)]]

MaxScenarios == 2

MaxChanges == 1

Amounts == {0, 1, 2}

ScenarioNames == {"Plan A", "Plan B"}

\* create_scenario called and its result appended, main.py:2014-2025
CreateScenario ==
    /\ sc_mode = "api"
    /\ table = NoTable
    /\ Len(scenarios) < MaxScenarios
    /\ \E name \in ScenarioNames : \E id \in DOMAIN allocs :
          /\ scenarios' = Append(scenarios,
                                 create_scenario(name, allocs, id, sc_elasticities,
                                                 baseline_sales))
          /\ created_with' = Append(created_with, allocs[id])
    /\ UNCHANGED <<sc_mode, allocs, sc_changes, sc_elasticities, baseline_sales, table,
                   table_inputs, page_scenarios>>
    /\ UNCHANGED <<optVars, shapVars, adsVars, trVars, repVars, ccVars, dashVars, apiVars, decVars, holdVars>>

\* The caller of create_scenario assigns to an entry of a dict it passed or
\* may pass
CallerChangesMap ==
    /\ sc_mode = "api"
    /\ table = NoTable
    /\ sc_changes < MaxChanges
    /\ \E id \in DOMAIN allocs : \E ch \in DOMAIN allocs[id] : \E v \in Amounts :
          /\ allocs[id][ch] # v
          /\ allocs' = [allocs EXCEPT ![id][ch] = v]
    /\ sc_changes' = sc_changes + 1
    /\ UNCHANGED <<sc_mode, sc_elasticities, baseline_sales, scenarios, created_with, table,
                   table_inputs, page_scenarios>>
    /\ UNCHANGED <<optVars, shapVars, adsVars, trVars, repVars, ccVars, dashVars, apiVars, decVars, holdVars>>

\* compare_scenarios on the stored list, main.py:2033-2035
CompareScenarios ==
    /\ sc_mode = "api"
    /\ table = NoTable
    /\ table' = [made |-> TRUE, rows |-> compare_scenarios(scenarios, allocs)]
    /\ table_inputs' = created_with
    /\ UNCHANGED <<sc_mode, allocs, sc_changes, sc_elasticities, baseline_sales, scenarios,
                   created_with, page_scenarios>>
    /\ UNCHANGED <<optVars, shapVars, adsVars, trVars, repVars, ccVars, dashVars, apiVars, decVars, holdVars>>

MaxPage == 3

\* "Scenario " + str(len(...)), 08_Scenario_Planning.py:182
DefaultNames == <<"Scenario 0", "Scenario 1", "Scenario 2", "Scenario 3", "Scenario 4",
                  "Scenario 5">>

DefaultName(len) == DefaultNames[len + 1]

\* Names the user may type over the default
TypedNames == {"Current", "Plan A"}

\* Page 8's current_spend and the positions of its sliders
PageCurrentSpend == [ch \in {"A", "B"} |-> 1]

SliderChoices == { [ch \in {"A", "B"} |-> 1], [A |-> 2, B |-> 0] }

\* 08_Scenario_Planning.py:50-56
CurrentScenario ==
    [name |-> "Current",
     spend_allocation |-> PageCurrentSpend,
     total_spend |-> SumValues(PageCurrentSpend),
     projected_sales |-> <<baseline_sales, 1>>]

\* 08_Scenario_Planning.py:182-192, with projected_sales of lines 104-111
PageSave ==
    /\ sc_mode = "page"
    /\ Len(page_scenarios) < MaxPage
    /\ \E scenario_name \in TypedNames \cup {DefaultName(Len(page_scenarios))} :
       \E scenario_spend \in SliderChoices :
          page_scenarios' =
             Append(page_scenarios,
                    [name |-> scenario_name,
                     spend_allocation |-> scenario_spend,
                     total_spend |-> SumValues(scenario_spend),
                     projected_sales |->
                        calculate_expected_lift(PageCurrentSpend, scenario_spend,
                                                sc_elasticities, baseline_sales).expected_sales])
    /\ UNCHANGED <<sc_mode, allocs, sc_changes, sc_elasticities, baseline_sales, scenarios,
                   created_with, table, table_inputs>>
    /\ UNCHANGED <<optVars, shapVars, adsVars, trVars, repVars, ccVars, dashVars, apiVars, decVars, holdVars>>

\* 08_Scenario_Planning.py:204-206
PageDelete ==
    /\ sc_mode = "page"
    /\ \E i \in 1..Len(page_scenarios) :
          /\ page_scenarios[i].name # "Current"
          /\ page_scenarios' = SubSeq(page_scenarios, 1, i - 1)
                                  \o SubSeq(page_scenarios, i + 1, Len(page_scenarios))
    /\ UNCHANGED <<sc_mode, allocs, sc_changes, sc_elasticities, baseline_sales, scenarios,
                   created_with, table, table_inputs>>
    /\ UNCHANGED <<optVars, shapVars, adsVars, trVars, repVars, ccVars, dashVars, apiVars, decVars, holdVars>>

AllocationChoices == { [A |-> 1, B |-> 1], [A |-> 2, B |-> 0], [A |-> 0, B |-> 0] }

InitScenario ==
    /\ IdleHoldout
    /\ IdleDecomposition
    /\ IdleApi
    /\ IdleDashboard
    /\ IdleContributions
    /\ IdleOpt
    /\ IdleShapley
    /\ IdleAdstock
    /\ IdleTransform
    /\ IdleReport
    /\ sc_mode \in {"api", "page"}
    /\ sc_elasticities \in { [A |-> 2, B |-> 1], [A |-> 1] }
    /\ baseline_sales \in SalesValues
    /\ sc_changes = 0
    /\ scenarios = <<>>
    /\ created_with = <<>>
    /\ table = NoTable
    /\ table_inputs = <<>>
    /\ IF sc_mode = "api"
       THEN /\ allocs \in [1..2 -> AllocationChoices]
            /\ page_scenarios = <<>>
       ELSE /\ allocs = <<>>
            /\ page_scenarios = <<CurrentScenario>>

NextScenario ==
    \/ CreateScenario
    \/ CallerChangesMap
    \/ CompareScenarios
    \/ PageSave
    \/ PageDelete

SpecScenario == InitScenario /\ [][NextScenario]_vars

----------------------------------------------------------------------------
(* compute_channel_contributions_loglog,                                   *)
(* src/dashboard/core/attribution.py:9-56.  A statistic is the exact       *)
(* fraction <<num, den>>; the standard deviation is kept as its square.    *)

\* betas.reshape(-1, betas.shape[-1]), lines 33-35: the draws of all chains
\* in one sequence of rows
RECURSIVE Flatten(_, _)
Flatten(betas, c) == IF c > Len(betas) THEN <<>> ELSE betas[c] \o Flatten(betas, c + 1)

RECURSIVE SumSeq(_, _)
SumSeq(s, i) == IF i > Len(s) THEN 0 ELSE s[i] + SumSeq(s, i + 1)

\* .mean()
Mean(s) == <<SumSeq(s, 1), Len(s)>>

\* .std() squared: the mean of the squares minus the square of the mean
Variance(s) ==
    <<Len(s) * SumSeq([i \in 1..Len(s) |-> s[i] * s[i]], 1) - SumSeq(s, 1) * SumSeq(s, 1),
      Len(s) * Len(s)>>

\* The samples in non-decreasing order
Sorted(s) ==
    CHOOSE t \in [1..Len(s) -> Range(s)] :
        /\ \A i \in 1..(Len(s) - 1) : t[i] <= t[i + 1]
        /\ \A v \in Range(s) :
              Cardinality({i \in 1..Len(s) : t[i] = v}) = Cardinality({i \in 1..Len(s) : s[i] = v})

\* np.percentile(s, q) with its linear interpolation
Percentile(s, q) ==
    LET t == Sorted(s)
        pos == (Len(s) - 1) * q
        k == pos \div 100
        r == pos % 100
        upper == IF k + 2 <= Len(s) THEN t[k + 2] ELSE t[k + 1]
    IN  <<t[k + 1] * (100 - r) + upper * r, 100>>

\* The indices the loop of line 39 visits: enumerate(channel_names)
ChannelColumns(channel_names, width) == 1..Len(channel_names)

\* lines 40-54 for the channel at index i
ChannelStatistics(rows, X, y_mean, i) ==
    LET beta_samples == [k \in 1..Len(rows) |-> rows[k][i]]
        mean_log_spend == Mean(X[i])
        \* contribution_samples share the denominator of mean_log_spend
        contribution_samples == [k \in 1..Len(rows) |->
                                    beta_samples[k] * mean_log_spend[1] * y_mean]
    IN  [elasticity_mean |-> Mean(beta_samples),
         elasticity_var |-> Variance(beta_samples),
         elasticity_ci_lower |-> Percentile(beta_samples, 3),
         elasticity_ci_upper |-> Percentile(beta_samples, 97),
         contribution_mean |-> <<SumSeq(contribution_samples, 1),
                                 Len(rows) * mean_log_spend[2]>>,
         contribution_var |-> <<Variance(contribution_samples)[1],
                                Variance(contribution_samples)[2]
                                   * mean_log_spend[2] * mean_log_spend[2]>>]

\* betas[:, i] or X_media_log[:, i] with i past the last column: IndexError
ColumnMissing(betas, X, channel_names) ==
    \E i \in ChannelColumns(channel_names, Len(betas[1][1])) :
        i > Len(betas[1][1]) \/ i > Len(X)

\* lines 30-56; a name listed twice keeps the statistics of its last index
compute_channel_contributions_loglog(betas, X, y_mean, channel_names) ==
    LET rows == Flatten(betas, 1)
        columns == ChannelColumns(channel_names, Len(betas[1][1]))
    IN  [channel \in {channel_names[i] : i \in columns} |->
            LET last == CHOOSE i \in columns :
                           /\ channel_names[i] = channel
                           /\ \A j \in columns : channel_names[j] = channel => j <= i
            IN  ChannelStatistics(rows, X, y_mean, last)]

ContributionsCall ==
    /\ cc_pc = "called"
    /\ ~ColumnMissing(cc_betas, cc_X_media_log, cc_names)
    /\ contributions' = compute_channel_contributions_loglog(cc_betas, cc_X_media_log,
                                                             cc_y_mean, cc_names)
    /\ cc_pc' = "returned"
    /\ UNCHANGED <<cc_betas, cc_X_media_log, cc_y_mean, cc_names>>
    /\ UNCHANGED <<optVars, shapVars, adsVars, trVars, repVars, scenVars, dashVars, apiVars, decVars, holdVars>>

ContributionsRaises ==
    /\ cc_pc = "called"
    /\ ColumnMissing(cc_betas, cc_X_media_log, cc_names)
    /\ cc_pc' = "raised"
    /\ UNCHANGED <<cc_betas, cc_X_media_log, cc_y_mean, cc_names, contributions>>
    /\ UNCHANGED <<optVars, shapVars, adsVars, trVars, repVars, scenVars, dashVars, apiVars, decVars, holdVars>>

MaxCoefficients == 3

MaxChains == 2

CoefficientValues == {1, 2}

LogSpendColumns == { <<1>>, <<0, 2>> }

ContributionNames == <<"A", "B", "C", "D", "E">>

InitContributions ==
    /\ IdleHoldout
    /\ IdleDecomposition
    /\ IdleApi
    /\ IdleDashboard
    /\ IdleOpt
    /\ IdleShapley
    /\ IdleAdstock
    /\ IdleTransform
    /\ IdleReport
    /\ IdleScenario
    /\ \E width \in 1..MaxCoefficients : \E n_chains \in 1..MaxChains :
          /\ cc_betas \in [1..n_chains -> [1..1 -> [1..width -> CoefficientValues]]]
          /\ cc_X_media_log \in [1..width -> LogSpendColumns]
          /\ \E n_names \in 0..(width + 1) : cc_names = SubSeq(ContributionNames, 1, n_names)
    /\ cc_y_mean \in {1, 10}
    /\ contributions = <<>>
    /\ cc_pc = "called"

NextContributions == ContributionsCall \/ ContributionsRaises

SpecContributions == InitContributions /\ [][NextContributions]_vars

----------------------------------------------------------------------------
(* The dashboard session: st.session_state and the pages that write it.    *)
(* A data set, a model and a trace are named by the number of the load or  *)
(* fit that made them; a derived value (elasticities, ROI estimates,       *)
(* optimization results, a saved scenario) is named by the trace it was    *)
(* computed from.                                                          *)

\* Python's None
None == 0

\* set_state(key, value): st.session_state[key] = value
set_state(ss, key, value) ==
    [k \in (DOMAIN ss) \cup {key} |-> IF k = key THEN value ELSE ss[k]]

\* get_state(key, default=None): st.session_state.get(key, default)
get_state(ss, key) == IF key \in DOMAIN ss THEN ss[key] ELSE None

\* the defaults of init_session_state that the pages below read or write
SessionDefaults ==
    [data |-> None, data_filename |-> None, data_loaded |-> FALSE,
     media_columns |-> <<>>, model_type |-> "Log-Log Multiplicative",
     model |-> None, trace |-> None, model_trained |-> FALSE,
     training_progress |-> 0, elasticities |-> None, contributions |-> None,
     roi_estimates |-> None, model_metrics |-> None,
     optimization_results |-> None, scenarios |-> <<>>]

\* init_session_state(): a default is stored only for a key that is absent
init_session_state(ss) ==
    [k \in (DOMAIN ss) \cup (DOMAIN SessionDefaults) |->
        IF k \in DOMAIN ss THEN ss[k] ELSE SessionDefaults[k]]

\* the keys clear_model_state walks over
ModelStateKeys ==
    {"model", "trace", "model_trained", "training_progress", "elasticities",
     "contributions", "roi_estimates", "model_metrics", "optimization_results",
     "scenarios"}

\* a reset that forgets the fitted model only, as the retrain button does
ClearTrainedModelOnly(ss) ==
    [k \in (DOMAIN ss) \cup {"model_trained", "training_progress"} |->
        IF k = "model_trained" THEN FALSE
        ELSE IF k = "training_progress" THEN 0
        ELSE IF k \in {"model", "trace"} THEN None
        ELSE ss[k]]

\* clear_model_state(): every present key of the list becomes None
\* (scenarios: the empty list), then model_trained and training_progress
\* are stored as False and 0
clear_model_state(ss) ==
    [k \in (DOMAIN ss) \cup {"model_trained", "training_progress"} |->
        IF k = "model_trained" THEN FALSE
        ELSE IF k = "training_progress" THEN 0
        ELSE IF k \in ModelStateKeys
             THEN (IF k # "scenarios" THEN None ELSE <<>>)
             ELSE ss[k]]

\* a session with a trained model, elasticities, an optimization result
\* and saved scenarios
HoldsModelState(ss) ==
    /\ ss["model_trained"]
    /\ ss["trace"] # None
    /\ ss["elasticities"] # None
    /\ ss["roi_estimates"] # None
    /\ ss["optimization_results"] # None
    /\ ss["scenarios"] # <<>>

MaxLoads == 2

MaxFits == 2

MaxSaved == 1

\* the body shared by the two ways of loading data on page 01: a failed
\* load shows the error; a load that worked clears the model state and
\* stores the data, its file name and data_loaded
LoadData(step) ==
    /\ held_before' = HoldsModelState(init_session_state(session))
    /\ \E error \in BOOLEAN :
          IF error
          THEN /\ session' = init_session_state(session)
               /\ dash_step' = "load_failed"
               /\ UNCHANGED n_loads
          ELSE /\ session' = set_state(set_state(set_state(
                                clear_model_state(init_session_state(session)),
                                "data", n_loads + 1),
                                "data_filename", n_loads + 1),
                                "data_loaded", TRUE)
               /\ dash_step' = step
               /\ n_loads' = n_loads + 1
    /\ UNCHANGED <<n_fits, read_elasticities, traces_with_beta>>
    /\ UNCHANGED <<optVars, shapVars, adsVars, trVars, repVars, scenVars, ccVars, apiVars, decVars, holdVars>>

\* page 01, file uploader: load_file(uploaded_file)
UploadFile ==
    /\ n_loads < MaxLoads
    /\ LoadData("upload")

\* page 01, sample button: load_sample_data("conjura")
LoadSample ==
    /\ n_loads < MaxLoads
    /\ LoadData("sample")

ColumnChoices == { <<"A">>, <<"A", "B">> }

\* page 03: a non-empty selection of media columns is stored
MapColumns ==
    /\ get_state(session, "data_loaded")
    /\ \E media_columns \in ColumnChoices :
          session' = set_state(init_session_state(session), "media_columns", media_columns)
    /\ dash_step' = "mapping"
    /\ UNCHANGED <<n_fits, n_loads, held_before, read_elasticities, traces_with_beta>>
    /\ UNCHANGED <<optVars, shapVars, adsVars, trVars, repVars, scenVars, ccVars, apiVars, decVars, holdVars>>

ModelTypes == {"Log-Log Multiplicative", "Lift-Factor Multiplicative"}

\* page 04: the selected model type is stored
ConfigureModel ==
    /\ get_state(session, "data_loaded")
    /\ get_state(session, "media_columns") # <<>>
    /\ \E model_type \in ModelTypes :
          session' = set_state(init_session_state(session), "model_type", model_type)
    /\ dash_step' = "config"
    /\ UNCHANGED <<n_fits, n_loads, held_before, read_elasticities, traces_with_beta>>
    /\ UNCHANGED <<optVars, shapVars, adsVars, trVars, repVars, scenVars, ccVars, apiVars, decVars, holdVars>>

\* page 05, "Start Training": the model is built after the model type (only
\* the log-log model has a 'beta' variable) and fitted; a fit that raises
\* shows the error and stores nothing
StartTraining ==
    /\ get_state(session, "data_loaded")
    /\ get_state(session, "media_columns") # <<>>
    /\ ~ get_state(session, "model_trained")
    /\ n_fits < MaxFits
    /\ \E raised \in BOOLEAN :
          IF raised
          THEN /\ session' = init_session_state(session)
               /\ dash_step' = "train_failed"
               /\ UNCHANGED <<n_fits, traces_with_beta>>
          ELSE /\ session' = set_state(set_state(set_state(set_state(set_state(
                                init_session_state(session),
                                "model", n_fits + 1),
                                "trace", n_fits + 1),
                                "model_trained", TRUE),
                                "training_progress", 100),
                                "model_metadata", get_state(session, "data"))
               /\ dash_step' = "train"
               /\ n_fits' = n_fits + 1
               /\ traces_with_beta' =
                     IF get_state(session, "model_type") = "Log-Log Multiplicative"
                     THEN traces_with_beta \cup {n_fits + 1}
                     ELSE traces_with_beta
    /\ UNCHANGED <<n_loads, held_before, read_elasticities>>
    /\ UNCHANGED <<optVars, shapVars, adsVars, trVars, repVars, scenVars, ccVars, apiVars, decVars, holdVars>>

\* page 05, "Retrain Model": model_trained, trace and model are reset
Retrain ==
    /\ get_state(session, "data_loaded")
    /\ get_state(session, "media_columns") # <<>>
    /\ get_state(session, "model_trained")
    /\ session' = set_state(set_state(set_state(init_session_state(session),
                     "model_trained", FALSE), "trace", None), "model", None)
    /\ dash_step' = "retrain"
    /\ UNCHANGED <<n_fits, n_loads, held_before, read_elasticities, traces_with_beta>>
    /\ UNCHANGED <<optVars, shapVars, adsVars, trVars, repVars, scenVars, ccVars, apiVars, decVars, holdVars>>

\* page 06: with a 'beta' variable in the posterior of the stored trace the
\* elasticities and the ROI estimates are computed from it and stored
ViewResults ==
    /\ get_state(session, "model_trained")
    /\ LET trace == get_state(session, "trace")
       IN  session' = IF trace \in traces_with_beta
                      THEN set_state(set_state(init_session_state(session),
                                "elasticities", trace), "roi_estimates", trace)
                      ELSE init_session_state(session)
    /\ dash_step' = "results"
    /\ UNCHANGED <<n_fits, n_loads, held_before, read_elasticities, traces_with_beta>>
    /\ UNCHANGED <<optVars, shapVars, adsVars, trVars, repVars, scenVars, ccVars, apiVars, decVars, holdVars>>

\* page 07: the stored elasticities are read; "Optimize Budget" stores a
\* result computed from them
OptimizationPage ==
    /\ get_state(session, "model_trained")
    /\ get_state(session, "elasticities") # None
    /\ read_elasticities' = get_state(session, "elasticities")
    /\ \E clicked \in BOOLEAN :
          session' = IF clicked
                     THEN set_state(init_session_state(session), "optimization_results",
                                    get_state(session, "elasticities"))
                     ELSE init_session_state(session)
    /\ dash_step' = "optimize"
    /\ UNCHANGED <<n_fits, n_loads, held_before, traces_with_beta>>
    /\ UNCHANGED <<optVars, shapVars, adsVars, trVars, repVars, scenVars, ccVars, apiVars, decVars, holdVars>>

\* page 08: the stored elasticities are read; an empty scenario list gets
\* the 'Current' scenario (written None here: it uses no elasticity);
\* "Save Scenario" appends a scenario projected with the elasticities read
ScenarioPage ==
    /\ get_state(session, "model_trained")
    /\ get_state(session, "elasticities") # None
    /\ read_elasticities' = get_state(session, "elasticities")
    /\ LET listed == IF get_state(session, "scenarios") = <<>>
                     THEN <<None>>
                     ELSE get_state(session, "scenarios")
       IN  \E saved \in BOOLEAN :
              /\ saved => Len(listed) <= MaxSaved
              /\ session' = set_state(init_session_state(session), "scenarios",
                               IF saved
                               THEN Append(listed, get_state(session, "elasticities"))
                               ELSE listed)
    /\ dash_step' = "scenario"
    /\ UNCHANGED <<n_fits, n_loads, held_before, traces_with_beta>>
    /\ UNCHANGED <<optVars, shapVars, adsVars, trVars, repVars, scenVars, ccVars, apiVars, decVars, holdVars>>

InitDashboard ==
    /\ IdleHoldout
    /\ IdleDecomposition
    /\ IdleApi
    /\ IdleOpt
    /\ IdleShapley
    /\ IdleAdstock
    /\ IdleTransform
    /\ IdleReport
    /\ IdleScenario
    /\ IdleContributions
    /\ session = init_session_state(<<>>)
    /\ n_fits = 0
    /\ n_loads = 0
    /\ dash_step = "start"
    /\ held_before = FALSE
    /\ read_elasticities = None
    /\ traces_with_beta = {}

NextDashboard ==
    \/ UploadFile
    \/ LoadSample
    \/ MapColumns
    \/ ConfigureModel
    \/ StartTraining
    \/ Retrain
    \/ ViewResults
    \/ OptimizationPage
    \/ ScenarioPage

SpecDashboard == InitDashboard /\ [][NextDashboard]_vars

----------------------------------------------------------------------------
(* The backend session store: the dict session_data of                     *)
(* src/backend/main.py and the endpoints that read and write it.  A data   *)
(* frame is described by what the endpoints below depend on (whether the   *)
(* target is constant, the total spend of each column); an array stored by *)
(* a training run is named by the number of the run; a trace holds the     *)
(* channel list it was trained with and one coefficient for each of them.  *)
(* A float of a response body is a record: finite with its value (a        *)
(* fraction), nan, -inf, or null (Python's None).                           *)

NaN == [kind |-> "nan"]

NegInf == [kind |-> "-inf"]

Null == [kind |-> "null"]

\* clean_for_json on a body: a float that is nan or infinite becomes None,
\* every other value is kept
clean_for_json(obj) ==
    [k \in DOMAIN obj |->
        IF obj[k].kind \in {"nan", "inf", "-inf"} THEN Null ELSE obj[k]]

\* session_data[key] = value
StoreKey(sd, key, value) ==
    [k \in (DOMAIN sd) \cup {key} |-> IF k = key THEN value ELSE sd[k]]

\* the keys train_model stores after fit_model has returned (lines 1533-1548)
\* apart from trace, media_cols, y and X_media_raw
RunKeys ==
    {"model", "X_media", "X_media_adstocked", "control_cols",
     "X_controls", "X_events", "event_names", "X_fourier", "trend", "decay_rates",
     "saturation_params", "X_media_means"}

\* lines 1365-1367
StoreAggregated(sd, run, holdout) ==
    StoreKey(StoreKey(StoreKey(sd, "df_agg", run), "df_train", run),
             "df_holdout", IF holdout THEN run ELSE 0)

\* lines 1533-1548
StoreRun(sd, run, df, media_cols, coefficients) ==
    [k \in (DOMAIN sd) \cup RunKeys \cup {"trace", "media_cols", "y", "X_media_raw"} |->
        IF k = "trace" THEN [run |-> run, channels |-> media_cols, beta |-> coefficients]
        ELSE IF k = "media_cols" THEN media_cols
        ELSE IF k = "y" THEN [run |-> run, constant |-> df.constant_target]
        ELSE IF k = "X_media_raw"
             THEN [run |-> run,
                   sums |-> [i \in 1..Len(media_cols) |-> df.spend[media_cols[i]]]]
        ELSE IF k \in RunKeys THEN run
        ELSE sd[k]]

ApiResponse(endpoint, status, paired, body) ==
    [endpoint |-> endpoint, status |-> status, channels |-> paired, body |-> body]

NoBody == <<>>

DataColumns == {"A", "B"}

\* the data frames of the uploads: a varying target and a column A with
\* spend, or a constant target and a column A without
DataFrames ==
    { [constant_target |-> FALSE, spend |-> [A |-> 2, B |-> 1]],
      [constant_target |-> TRUE, spend |-> [A |-> 0, B |-> 1]] }

\* POST /api/upload: a file that cannot be read is answered with an error;
\* otherwise df and filename are stored
upload_data ==
    /\ \E readable \in BOOLEAN :
          IF readable
          THEN \E df \in DataFrames :
                  /\ session_data' = StoreKey(StoreKey(session_data, "df", df),
                                              "filename", "upload")
                  /\ api_response' = ApiResponse("upload", 200, <<>>, NoBody)
          ELSE /\ UNCHANGED session_data
               /\ api_response' = ApiResponse("upload", 500, <<>>, NoBody)
    /\ UNCHANGED <<train_changed, n_trains>>
    /\ UNCHANGED <<optVars, shapVars, adsVars, trVars, repVars, scenVars, ccVars, dashVars, decVars, holdVars>>

MappingChoices == { <<"A">>, <<"A", "B">>, <<"B", "A">>, <<"A", "Z">> }

\* POST /api/mapping: 400 without data or with a column the data lacks
set_column_mapping ==
    /\ \E media_cols \in MappingChoices :
          IF "df" \notin DOMAIN session_data
             \/ \E i \in 1..Len(media_cols) : media_cols[i] \notin DataColumns
          THEN /\ UNCHANGED session_data
               /\ api_response' = ApiResponse("mapping", 400, <<>>, NoBody)
          ELSE /\ session_data' = StoreKey(session_data, "mapping",
                                           [media_cols |-> media_cols])
               /\ api_response' = ApiResponse("mapping", 200, <<>>, NoBody)
    /\ UNCHANGED <<train_changed, n_trains>>
    /\ UNCHANGED <<optVars, shapVars, adsVars, trVars, repVars, scenVars, ccVars, dashVars, decVars, holdVars>>

\* POST /api/model/config; of the configuration only holdout_weeks > 0 is kept
set_model_config ==
    /\ \E holdout \in BOOLEAN :
          session_data' = StoreKey(session_data, "model_config", [holdout |-> holdout])
    /\ api_response' = ApiResponse("config", 200, <<>>, NoBody)
    /\ UNCHANGED <<train_changed, n_trains>>
    /\ UNCHANGED <<optVars, shapVars, adsVars, trVars, repVars, scenVars, ccVars, dashVars, decVars, holdVars>>

MaxTrains == 2

\* where a train call ends: an exception while the data is aggregated
\* (before line 1365), one between line 1368 and the return of fit_model,
\* one in compute_model_diagnostics (line 1551), or the return of line 1567
TrainOutcomes == {"preprocessing", "fitting", "diagnostics", "ok"}

BetaValues == <<2, 1>>

\* POST /api/model/train
train_model ==
    /\ n_trains < MaxTrains
    /\ IF "df" \notin DOMAIN session_data \/ "mapping" \notin DOMAIN session_data
       THEN /\ api_response' = ApiResponse("train", 400, <<>>, NoBody)
            /\ UNCHANGED <<session_data, n_trains>>
       ELSE \E outcome \in TrainOutcomes :
               LET run == n_trains + 1
                   media_cols == session_data["mapping"].media_cols
                   holdout == IF "model_config" \in DOMAIN session_data
                              THEN session_data["model_config"].holdout
                              ELSE FALSE
                   aggregated == StoreAggregated(session_data, run, holdout)
                   stored == StoreRun(aggregated, run, session_data["df"], media_cols,
                                      SubSeq(BetaValues, 1, Len(media_cols)))
                   measured == IF holdout
                               THEN StoreKey(stored, "holdout_metrics", run)
                               ELSE stored
               IN  /\ session_data' = CASE outcome = "preprocessing" -> session_data
                                        [] outcome = "fitting" -> aggregated
                                        [] outcome = "diagnostics" -> stored
                                        [] outcome = "ok" -> measured
                   /\ n_trains' = IF outcome = "preprocessing" THEN n_trains ELSE run
                   /\ api_response' = ApiResponse("train",
                                                  IF outcome = "ok" THEN 200 ELSE 500,
                                                  <<>>, NoBody)
    /\ train_changed' = (session_data' # session_data)
    /\ UNCHANGED <<optVars, shapVars, adsVars, trVars, repVars, scenVars, ccVars, dashVars, decVars, holdVars>>

\* the coefficient the endpoints read for position i of their channel list
\* is position i of the trace's coefficients; a position the trace lacks
\* is an IndexError
PairedElasticities(media_cols, trace) ==
    [i \in 1..Len(media_cols) |-> <<media_cols[i], trace.beta[i]>>]

IndexError(media_cols, trace) == Len(media_cols) > Len(trace.beta)

\* r_squared = 1 - ss_res / ss_tot of lines 1664-1666: with a constant
\* target ss_tot is 0 and numpy returns -inf, or nan when ss_res is 0 too
RSquared(constant_target) ==
    IF constant_target THEN {NegInf, NaN} ELSE {Finite(0, 1), Finite(1, 1)}

\* GET /api/model/results: the body goes through clean_for_json
get_model_results ==
    /\ IF "trace" \notin DOMAIN session_data
       THEN api_response' = ApiResponse("results", 400, <<>>, NoBody)
       ELSE LET trace == session_data["trace"]
                media_cols == session_data["mapping"].media_cols
            IN  IF IndexError(media_cols, trace)
                THEN api_response' = ApiResponse("results", 500, media_cols, NoBody)
                ELSE \E r_squared \in RSquared(session_data["y"].constant) :
                        api_response' =
                           ApiResponse("results", 200, media_cols,
                              clean_for_json(
                                 [k \in {<<"r_squared", 0, "">>} |-> r_squared]))
    /\ UNCHANGED <<session_data, train_changed, n_trains>>
    /\ UNCHANGED <<optVars, shapVars, adsVars, trVars, repVars, scenVars, ccVars, dashVars, decVars, holdVars>>

\* the allocations optimize_budget_marginal_roi may return here: the even
\* one and the one that spends all on the first channel; the optimizer
\* itself is the subject of SpecOpt
OptimalChoices(n) ==
    { [i \in 1..n |-> 1], [i \in 1..n |-> IF i = 1 THEN n ELSE 0] }

\* POST /api/optimize: the dict is returned as it is
optimize_budget ==
    /\ IF "trace" \notin DOMAIN session_data
       THEN api_response' = ApiResponse("optimize", 400, <<>>, NoBody)
       ELSE LET trace == session_data["trace"]
                media_cols == session_data["mapping"].media_cols
                sums == session_data["X_media_raw"].sums
            IN  IF IndexError(media_cols, trace)
                THEN api_response' = ApiResponse("optimize", 500, media_cols, NoBody)
                ELSE \E optimal \in OptimalChoices(Len(media_cols)) :
                        api_response' =
                           ApiResponse("optimize", 200, media_cols,
                              [k \in {"current", "optimal", "change_pct"}
                                        \X (1..Len(media_cols)) \X {""} |->
                                 CASE k[1] = "current" -> Finite(sums[k[2]], 1)
                                   [] k[1] = "optimal" -> Finite(optimal[k[2]], 1)
                                   [] k[1] = "change_pct" ->
                                         GuardedChange(sums[k[2]], optimal[k[2]])])
    /\ UNCHANGED <<session_data, train_changed, n_trains>>
    /\ UNCHANGED <<optVars, shapVars, adsVars, trVars, repVars, scenVars, ccVars, dashVars, decVars, holdVars>>

\* the spend_allocation of a scenario request: any channel names
ScenarioRequests == { [A |-> 1, B |-> 1], [B |-> 2] }

\* the floats of one scenario dict
ScenarioFloats(section, i, scenario) ==
    [k \in ({section} \X {i} \X ({"total_spend", "projected_sales", "roi"}
                                   \cup DOMAIN scenario.spend_allocation)) |->
        CASE k[3] = "total_spend" -> Finite(scenario.total_spend, 1)
          [] k[3] = "projected_sales" -> Finite(scenario.projected_sales[1], scenario.projected_sales[2])
          [] k[3] = "roi" -> Finite(scenario.roi[1], scenario.roi[2])
          [] OTHER -> Finite(scenario.spend_allocation[k[3]], 1)]

\* y.mean() of the training data
MeanSales == 100

\* POST /api/scenarios/create: the scenario is stored and returned as it is
create_new_scenario ==
    /\ IF "trace" \notin DOMAIN session_data
       THEN /\ api_response' = ApiResponse("scenario_create", 400, <<>>, NoBody)
            /\ UNCHANGED session_data
       ELSE LET trace == session_data["trace"]
                media_cols == session_data["mapping"].media_cols
                listed == IF "scenarios" \in DOMAIN session_data
                          THEN session_data["scenarios"] ELSE <<>>
            IN  IF IndexError(media_cols, trace)
                THEN /\ api_response' = ApiResponse("scenario_create", 500, media_cols, NoBody)
                     /\ UNCHANGED session_data
                ELSE /\ Len(listed) < MaxScenarios
                     /\ \E name \in {"Plan A"} : \E spend_allocation \in ScenarioRequests :
                           LET pairs == PairedElasticities(media_cols, trace)
                               elast == [c \in {pairs[i][1] : i \in DOMAIN pairs} |->
                                           pairs[CHOOSE i \in DOMAIN pairs : pairs[i][1] = c][2]]
                               scenario == [create_scenario(name, <<spend_allocation>>, 1,
                                                            elast, MeanSales)
                                              EXCEPT !.spend_allocation = spend_allocation]
                           IN  /\ session_data' = StoreKey(session_data, "scenarios",
                                                           Append(listed, scenario))
                               /\ api_response' =
                                     ApiResponse("scenario_create", 200, media_cols,
                                                 ScenarioFloats("scenario", 1, scenario))
    /\ UNCHANGED <<train_changed, n_trains>>
    /\ UNCHANGED <<optVars, shapVars, adsVars, trVars, repVars, scenVars, ccVars, dashVars, decVars, holdVars>>

\* pd.DataFrame(data).to_dict(orient='records') of compare_scenarios' rows:
\* the frame has the union of the rows' columns and a row without a column
\* holds nan there
ComparisonRecords(scenarios_) ==
    LET columns == UNION { DOMAIN scenarios_[i].spend_allocation : i \in 1..Len(scenarios_) }
    IN  [k \in {"comparison"} \X (1..Len(scenarios_))
                  \X ({"total_spend", "projected_sales", "roi"} \cup columns) |->
           LET scenario == scenarios_[k[2]]
           IN  CASE k[3] = "total_spend" -> Finite(scenario.total_spend, 1)
                 [] k[3] = "projected_sales" -> Finite(scenario.projected_sales[1], scenario.projected_sales[2])
                 [] k[3] = "roi" -> Finite(scenario.roi[1], scenario.roi[2])
                 [] OTHER -> IF k[3] \in DOMAIN scenario.spend_allocation
                             THEN Finite(scenario.spend_allocation[k[3]], 1)
                             ELSE NaN]

\* the union of two bodies with disjoint keys
Merge(f, g) == [k \in (DOMAIN f) \cup (DOMAIN g) |-> IF k \in DOMAIN f THEN f[k] ELSE g[k]]

RECURSIVE ScenarioListFloats(_, _)
ScenarioListFloats(scenarios_, i) ==
    IF i > Len(scenarios_) THEN <<>>
    ELSE Merge(ScenarioFloats("scenarios", i, scenarios_[i]),
               ScenarioListFloats(scenarios_, i + 1))

\* GET /api/scenarios: the scenarios and the comparison records are
\* returned as they are
get_scenarios ==
    /\ LET listed == IF "scenarios" \in DOMAIN session_data
                     THEN session_data["scenarios"] ELSE <<>>
       IN  api_response' =
              ApiResponse("scenario_list", 200, <<>>,
                 IF listed # <<>>
                 THEN Merge(ScenarioListFloats(listed, 1), ComparisonRecords(listed))
                 ELSE NoBody)
    /\ UNCHANGED <<session_data, train_changed, n_trains>>
    /\ UNCHANGED <<optVars, shapVars, adsVars, trVars, repVars, scenVars, ccVars, dashVars, decVars, holdVars>>

InitApi ==
    /\ IdleHoldout
    /\ IdleDecomposition
    /\ IdleOpt
    /\ IdleShapley
    /\ IdleAdstock
    /\ IdleTransform
    /\ IdleReport
    /\ IdleScenario
    /\ IdleContributions
    /\ IdleDashboard
    /\ session_data = <<>>
    /\ train_changed = FALSE
    /\ api_response = ApiResponse("start", 200, <<>>, NoBody)
    /\ n_trains = 0

NextApi ==
    \/ upload_data
    \/ set_column_mapping
    \/ set_model_config
    \/ train_model
    \/ get_model_results
    \/ optimize_budget
    \/ create_new_scenario
    \/ get_scenarios

SpecApi == InitApi /\ [][NextApi]_vars

----------------------------------------------------------------------------
(* The decomposition table of get_model_results,                           *)
(* src/backend/main.py:1786-1839, for one period.  Log-space values are    *)
(* integers in units of ln 2, so that np.exp of a value is a power of two  *)
(* and every dollar amount is an exact fraction.                           *)

\* np.exp(v)
Exp(v) == IF v >= 0 THEN <<Pow(2, v), 1>> ELSE <<1, Pow(2, 0 - v)>>

FracSub(a, b) == <<a[1] * b[2] - b[1] * a[2], a[2] * b[2]>>

FracMul(a, b) == <<a[1] * b[1], a[2] * b[2]>>

\* max(0, a)
FracMax0(a) == IF a[1] > 0 THEN a ELSE <<0, 1>>

RECURSIVE SumSeqFrom(_, _)
SumSeqFrom(q, i) == IF i > Len(q) THEN 0 ELSE q[i] + SumSeqFrom(q, i + 1)

\* y_pred[i] of lines 1636-1661: every component of the model
PredictedSales(intercept, trend, seasonality, events, controls, media) ==
    FracSub(Exp(intercept + SumSeqFrom(media, 1) + seasonality + trend + events + controls),
            <<1, 1>>)

\* baseline_val of lines 1806-1816: intercept, trend and seasonality
TableBaseline(intercept, trend, seasonality, events, controls) ==
    FracSub(Exp(intercept + trend + seasonality), <<1, 1>>)

\* row[col] of lines 1824-1837
ChannelCredit(media, j, total_media_effect) ==
    LET total_media_log == SumSeqFrom(media, 1)
    IN  IF total_media_log > 0 /\ total_media_effect[1] > 0
        THEN FracMax0(FracMul(<<media[j], total_media_log>>, total_media_effect))
        ELSE <<0, 1>>

\* one pass of the loop of lines 1799-1839
DecompositionRow ==
    /\ dec_pc = "called"
    /\ LET y_pred == PredictedSales(dec_intercept, dec_trend, dec_seasonality, dec_events,
                                    dec_controls, dec_media)
           baseline_val == TableBaseline(dec_intercept, dec_trend, dec_seasonality,
                                         dec_events, dec_controls)
           total_media_effect == FracSub(y_pred, baseline_val)
       IN  /\ dec_effect' = total_media_effect
           /\ dec_row' = [predicted |-> y_pred,
                          baseline |-> FracMax0(baseline_val),
                          channels |-> [j \in 1..Len(dec_media) |->
                                           ChannelCredit(dec_media, j, total_media_effect)]]
    /\ dec_pc' = "done"
    /\ UNCHANGED <<dec_intercept, dec_trend, dec_seasonality, dec_events, dec_controls,
                   dec_media>>
    /\ UNCHANGED <<optVars, shapVars, adsVars, trVars, repVars, scenVars, ccVars, dashVars, apiVars, holdVars>>

MaxLogContribution == 2

\* the log-space contribution of a channel is beta_mean[j] (a half-normal,
\* not negative) times the log of 1 + its scaled spend
MediaContributions == UNION { [1..n -> 0..MaxLogContribution] : n \in 1..2 }

InitDecomposition ==
    /\ IdleHoldout
    /\ IdleOpt
    /\ IdleShapley
    /\ IdleAdstock
    /\ IdleTransform
    /\ IdleReport
    /\ IdleScenario
    /\ IdleContributions
    /\ IdleDashboard
    /\ IdleApi
    /\ dec_intercept \in {1, 2, 3}
    /\ dec_trend \in {0, 1}
    /\ dec_seasonality \in {-1, 0, 1}
    /\ dec_events \in {-2, 0, 1}
    /\ dec_controls \in {-1, 0}
    /\ dec_media \in MediaContributions
    /\ dec_row = <<>>
    /\ dec_effect = <<0, 1>>
    /\ dec_pc = "called"

NextDecomposition == DecompositionRow

SpecDecomposition == InitDecomposition /\ [][NextDecomposition]_vars

----------------------------------------------------------------------------
(* The media transformations of train_model (src/backend/main.py:1372-1427)*)
(* and of compute_holdout_metrics (lines 361-383).  A transformation of a  *)
(* column is the sequence of the steps applied to it, each with the        *)
(* parameter it is called with.                                            *)

Step(op, param) == [op |-> op, param |-> param]

\* lines 1378-1389, 1394-1398 and 1406-1425 for one channel: adstock when
\* enabled, division by the mean when it is positive, saturation when
\* enabled, with K divided by the mean
TrainSteps(c) ==
    (IF c.adstock THEN <<Step("geometric_adstock", c.decay)>> ELSE <<>>)
    \o (IF c.mean_positive THEN <<Step("divide", "mean")>> ELSE <<>>)
    \o (IF c.saturation
        THEN <<Step("hill_function_scaled",
                    IF c.mean_positive THEN "K / mean, S" ELSE "K, S")>>
        ELSE <<>>)

\* decay_rates_used[col], lines 1382 and 1389
DecayRateUsed(c) == IF c.adstock THEN c.decay ELSE "0.0"

\* saturation_params_used[col], lines 1415 and 1425: a dict in both cases
SaturationParamsUsed(c) ==
    IF c.saturation THEN [K |-> "K", S |-> "S", truthy |-> TRUE]
    ELSE [K |-> "0", S |-> "0", truthy |-> TRUE]

TrainTransform ==
    /\ hold_pc = "called"
    /\ train_out' = [steps |-> [i \in DOMAIN hold_config |-> TrainSteps(hold_config[i])],
                     decay_rates |-> [i \in DOMAIN hold_config |->
                                         DecayRateUsed(hold_config[i])],
                     saturation_params |-> [i \in DOMAIN hold_config |->
                                               SaturationParamsUsed(hold_config[i])]]
    /\ hold_pc' = "trained"
    /\ UNCHANGED <<hold_config, hold_means, holdout_out>>
    /\ UNCHANGED <<optVars, shapVars, adsVars, trVars, repVars, scenVars, ccVars, dashVars, apiVars, decVars>>

\* lines 368-380 for one channel: adstock when the stored decay rate is
\* positive, saturation when the stored parameters are truthy, with the
\* stored K
HoldoutSteps(c, rate, params) ==
    (IF rate # "0.0" THEN <<Step("geometric_adstock", rate)>> ELSE <<>>)
    \o (IF params.truthy
        THEN <<Step("hill_function_scaled",
                    IF params.K = "0" THEN "0, 0" ELSE "K, S")>>
        ELSE <<>>)

\* lines 381-383: X_transformed / (X_media_means + 1e-8); a dict plus a
\* float is a TypeError, which the except clause of line 483 returns as
\* {'error': ...}
HoldoutScale(c) == <<Step("divide", IF c.mean_positive THEN "mean" ELSE "1e-8")>>

HoldoutTransform ==
    /\ hold_pc = "trained"
    /\ holdout_out' =
          IF hold_means = "dict"
          THEN [error |-> TRUE, steps |-> <<>>]
          ELSE [error |-> FALSE,
                steps |-> [i \in DOMAIN hold_config |->
                              HoldoutSteps(hold_config[i], train_out.decay_rates[i],
                                           train_out.saturation_params[i])
                              \o HoldoutScale(hold_config[i])]]
    /\ hold_pc' = "done"
    /\ UNCHANGED <<hold_config, hold_means, train_out>>
    /\ UNCHANGED <<optVars, shapVars, adsVars, trVars, repVars, scenVars, ccVars, dashVars, apiVars, decVars>>

MaxHoldoutChannels == 2

\* decay rates of an enabled adstock (a rate of 0 leaves the column as it is)
DecayChoices == {"0.3", "0.5"}

ChannelConfigs ==
    [adstock : BOOLEAN, decay : DecayChoices, saturation : BOOLEAN, mean_positive : BOOLEAN]

\* train_model passes the dict X_media_means (lines 1393 and 1563); the
\* signature of compute_holdout_metrics declares an array
InitHoldout ==
    /\ IdleOpt
    /\ IdleShapley
    /\ IdleAdstock
    /\ IdleTransform
    /\ IdleReport
    /\ IdleScenario
    /\ IdleContributions
    /\ IdleDashboard
    /\ IdleApi
    /\ IdleDecomposition
    /\ \E n \in 1..MaxHoldoutChannels : hold_config \in [1..n -> ChannelConfigs]
    /\ hold_means \in {"dict", "array"}
    /\ train_out = <<>>
    /\ holdout_out = <<>>
    /\ hold_pc = "called"

NextHoldout == TrainTransform \/ HoldoutTransform

SpecHoldout == InitHoldout /\ [][NextHoldout]_vars

----------------------------------------------------------------------------
(* The engines together: every call of the sections above *)

InitEngine ==
    \/ InitOpt
    \/ InitShapley
    \/ (InitAdstock /\ x_other = x)   \* a matrix of two equal columns
    \/ InitReport
    \/ InitScenario

NextEngine ==
    \/ NextOpt
    \/ NextShapley
    \/ NextAdstock
    \/ NextReport
    \/ NextScenario

SpecEngine == InitEngine /\ [][NextEngine]_vars

----------------------------------------------------------------------------
(* Properties of optimize_budget_marginal_roi *)

lbNow == min_bounds(total_budget, channels, constraints)

ubNow == max_bounds(total_budget, channels, constraints)

\* A constraint set some allocation of the budget can satisfy
FeasibleConstraintSet ==
    /\ \A ch \in Range(channels) :
          /\ 0 <= ConstraintOf(constraints, ch)[1]
          /\ ConstraintOf(constraints, ch)[1] <= ConstraintOf(constraints, ch)[2]
          /\ ConstraintOf(constraints, ch)[2] <= 100
    /\ SumValues(lbNow) <= total_budget
    /\ total_budget <= SumValues(ubNow)

\* The solver's last iterate does not meet sum(x) = total_budget
EqualityMissed == result.nan \/ SumValues(result.x) # total_budget

\* spend_ch lies within [min_fraction, max_fraction] * total_budget
WithinBounds(ch) ==
    /\ ConstraintOf(constraints, ch)[1] * total_budget * optimal_spend.den
          <= 100 * optimal_spend.num[ch]
    /\ 100 * optimal_spend.num[ch]
          <= ConstraintOf(constraints, ch)[2] * total_budget * optimal_spend.den

\* spend_ch equals its lower or its upper bound
Pinned(ch) ==
    \/ 100 * optimal_spend.num[ch]
          = ConstraintOf(constraints, ch)[1] * total_budget * optimal_spend.den
    \/ 100 * optimal_spend.num[ch]
          = ConstraintOf(constraints, ch)[2] * total_budget * optimal_spend.den

\* elasticity_i / spend_i = elasticity_j / spend_j
EqualMarginalROI(i, j) ==
    elasticities[i] * optimal_spend.num[j] = elasticities[j] * optimal_spend.num[i]

\* The end-to-end example: elasticities {A: 0.2, B: 0.1}, current spend
\* {A: 600, B: 400}, budget 1000 (60 grid units), default bounds
IsExampleCall ==
    /\ channels = <<"A", "B">>
    /\ total_budget = 60
    /\ elasticities = [ch \in {"A", "B"} |-> IF ch = "A" THEN 2 ELSE 1]
    /\ current_spend = [ch \in {"A", "B"} |-> IF ch = "A" THEN 600 ELSE 400]
    /\ constraints = <<>>

ExampleOutcome ==
    /\ optimal_spend.num["A"] * 1000 > 600 * total_budget * optimal_spend.den
    /\ 100 * optimal_spend.num["A"] <= default_max * total_budget * optimal_spend.den
    /\ 100 * optimal_spend.num["B"] >= default_min * total_budget * optimal_spend.den
    /\ optimal_spend.num["A"] = 2 * optimal_spend.num["B"]

\* C1: for a positive budget and a feasible constraint set the returned
\* allocation sums to total_budget.
C1_BudgetConservation ==
    (opt_pc = "returned" /\ total_budget > 0 /\ FeasibleConstraintSet)
        => SumValues(optimal_spend.num) = total_budget * optimal_spend.den

\* C2: every spend of the returned allocation lies within its channel's
\* [min_fraction, max_fraction] * total_budget, defaults (0.05, 0.80).
C2_PerChannelBounds ==
    opt_pc = "returned" => \A ch \in Range(channels) : WithinBounds(ch)

\* C3: a non-positive budget, minimum bounds that sum above the budget, or a
\* solver run that ends off the budget equality, is reported as a failure
\* and never ends with a returned allocation.
C3_FailureReported ==
    (/\ opt_pc # "called"
     /\ \/ total_budget <= 0
        \/ SumValues(lbNow) > total_budget
        \/ (opt_pc = "returned" /\ EqualityMissed))
        => opt_pc = "raised"

\* C4: in the returned allocation two channels that are not pinned at a bound
\* have equal elasticity/spend, and the end-to-end example moves budget toward
\* A with A <= 80%, B >= 5% and A = 2 * B.
C4_MarginalROIEqualized ==
    opt_pc = "returned" =>
        /\ \A i \in Range(channels) : \A j \in Range(channels) :
              (~Pinned(i) /\ ~Pinned(j)) => EqualMarginalROI(i, j)
        /\ IsExampleCall => ExampleOutcome

----------------------------------------------------------------------------
(* Properties of compute_shapley_values *)

FirstShapleyDone == shap_pc \in {"first", "done"}

\* sum(result.values()) = value(all) - value(none) = sum(effects.values())
Efficient(res, ce) ==
    /\ SumValues(res.num)
          = res.den * (value_function(baseline, ce, Range(Keys(ce)))
                          - value_function(baseline, ce, {}))
    /\ SumValues(res.num) = res.den * SumEffects(ce, 1)

\* C5: for a non-empty channel_effects the Shapley values sum to
\* value(all channels) - value(no channels), which is the sum of the effects,
\* under the exact and under the sampling method.
C5_ShapleyEfficiency ==
    /\ (FirstShapleyDone /\ Len(channel_effects) > 0) => Efficient(shapley, channel_effects)
    /\ (shap_pc = "done" /\ Len(channel_effects2) > 0) => Efficient(shapley2, channel_effects2)

C5_Witness ==
    /\ shap_pc = "done"
    /\ shapley.method = "exact"
    /\ Len(channel_effects) >= 3
    /\ \E i \in 1..Len(channel_effects) : \E j \in 1..Len(channel_effects) :
          channel_effects[i][2] > channel_effects[j][2]

\* Channels with the same effect have the same value in res
Symmetric(res, ce) ==
    \A i \in 1..Len(ce) : \A j \in 1..Len(ce) :
        ce[i][2] = ce[j][2] => res.num[ce[i][1]] = res.num[ce[j][1]]

\* C6: two channels with the same individual effect receive the same
\* Shapley value.
C6_ShapleySymmetry ==
    /\ FirstShapleyDone => Symmetric(shapley, channel_effects)
    /\ shap_pc = "done" => Symmetric(shapley2, channel_effects2)

C6_Witness ==
    /\ FirstShapleyDone
    /\ shapley.method = "exact"
    /\ \E i \in 1..Len(channel_effects) : \E j \in 1..Len(channel_effects) :
          \E k \in 1..Len(channel_effects) :
             /\ i < k /\ k < j
             /\ channel_effects[i][2] = channel_effects[j][2]
             /\ channel_effects[i][2] > 0
             /\ channel_effects[k][2] # channel_effects[i][2]

\* C7: under the exact method two dicts holding the same pairs in different
\* insertion orders give every channel the same Shapley value.
C7_ShapleyOrderInvariance ==
    (shap_pc = "done" /\ shapley.method = "exact") =>
        /\ shapley2.method = "exact"
        /\ shapley.den = shapley2.den
        /\ \A i \in 1..Len(channel_effects) :
              shapley.num[channel_effects[i][1]] = shapley2.num[channel_effects[i][1]]

C7_Witness ==
    /\ shap_pc = "done"
    /\ shapley.method = "exact"
    /\ Len(channel_effects) >= 3
    /\ channel_effects2 # channel_effects
    /\ channel_effects2[1][1] # channel_effects[1][1]
    /\ \E i \in 1..Len(channel_effects) : channel_effects[i][2] # channel_effects[1][2]

\* The method the size of the dict calls for, and with it the sample count
\* and the seed
MethodSelected(res, ce) ==
    /\ (Len(ce) >= 1 /\ Len(ce) <= 10) => res.method = "exact"
    /\ Len(ce) > 10 =>
          /\ res.method = "sampling"
          /\ res.samples >= 1000
          /\ res.seed = Seed

\* C8: exact enumeration for at most 10 channels; for more, sampling with at
\* least 1000 permutations drawn from a generator with a fixed seed; two
\* calls with equal inputs return equal results.
C8_ShapleyMethodAndReproducibility ==
    /\ FirstShapleyDone => MethodSelected(shapley, channel_effects)
    /\ shap_pc = "done" =>
          /\ MethodSelected(shapley2, channel_effects2)
          /\ shapley.seed = shapley2.seed
          /\ channel_effects = channel_effects2 =>
                (shapley.num = shapley2.num /\ shapley.den = shapley2.den)

C8_Witness ==
    /\ shap_pc = "done"
    /\ shapley.method = "sampling"
    /\ shapley2.method = "sampling"
    /\ channel_effects = channel_effects2
    /\ SumEffects(channel_effects, 1) > 0

----------------------------------------------------------------------------
(* Properties of geometric_adstock *)

FirstAdstockDone == ads_pc \in {"first", "done"}

\* a + r * b for an integer a, a rate r in units of 1/DecayDen and a fraction b
PlusDecayed(a, r, b) == <<a * b[2] * DecayDen + r * b[1], b[2] * DecayDen>>

\* whole * (1 - decay_rate) as a fraction
Shrunk(whole) == <<whole * (DecayDen - decay_rate), DecayDen>>

\* out is the recurrence on xs when normalize is off, and the recurrence
\* times (1 - decay_rate) when it is on
FollowsRecurrence(xs, out) ==
    /\ Len(out) = Len(xs)
    /\ ~normalize =>
          /\ FracEq(out[1], <<xs[1], 1>>)
          /\ \A t \in 2..Len(xs) : FracEq(out[t], PlusDecayed(xs[t], decay_rate, out[t - 1]))
    /\ normalize =>
          /\ FracEq(out[1], Shrunk(xs[1]))
          /\ \A t \in 2..Len(xs) :
                LET carried == PlusDecayed(0, decay_rate, out[t - 1])
                    own == Shrunk(xs[t])
                IN  FracEq(out[t], <<own[1] * carried[2] + carried[1] * own[2],
                                     own[2] * carried[2]>>)
    /\ decay_rate = 0 => \A t \in 1..Len(xs) : FracEq(out[t], <<xs[t], 1>>)

\* C9: for a non-empty x and decay_rate in [0,1) the result has the length of
\* x, out[0] = x[0] and out[t] = x[t] + decay_rate * out[t-1]; with normalize
\* every element is that value times (1 - decay_rate); decay_rate = 0 returns x.
C9_AdstockRecurrence ==
    /\ (FirstAdstockDone /\ decay_rate < DecayDen) => FollowsRecurrence(x, adstocked)
    /\ (ads_pc = "done" /\ decay_rate < DecayDen) => FollowsRecurrence(x_other, adstocked_other)

C9_Witness ==
    /\ FirstAdstockDone
    /\ Len(x) >= 3
    /\ decay_rate > 0
    /\ decay_rate < DecayDen
    /\ normalize
    /\ x[1] > 0
    /\ x[2] # x[1]
    /\ adstocked[3][1] > 0

\* C10: two spend sequences of equal length that agree on positions 0..t
\* have the same adstocked value at position t.
C10_AdstockCausality ==
    ads_pc = "done" =>
        \A t \in 1..Len(x) :
            (\A i \in 1..t : x[i] = x_other[i]) => FracEq(adstocked[t], adstocked_other[t])

C10_Witness ==
    /\ ads_pc = "done"
    /\ decay_rate > 0
    /\ \E t \in 2..(Len(x) - 1) :
          /\ \A i \in 1..t : x[i] = x_other[i]
          /\ x[t + 1] # x_other[t + 1]
          /\ x[1] > 0
          /\ adstocked[t][1] > 0

\* C11: for a non-negative x and decay_rate in [0,1) the un-normalized
\* result is at least x at every position.
C11_AdstockMonotonicity ==
    (FirstAdstockDone /\ ~normalize /\ decay_rate < DecayDen) =>
        \A t \in 1..Len(x) :
            /\ x[t] >= 0
            /\ adstocked[t][2] > 0
            /\ adstocked[t][1] >= x[t] * adstocked[t][2]

C11_Witness ==
    /\ FirstAdstockDone
    /\ ~normalize
    /\ decay_rate > 0
    /\ decay_rate < DecayDen
    /\ Len(x) >= 2
    /\ \E t \in 2..Len(x) : adstocked[t][1] > x[t] * adstocked[t][2]

\* out is what the recurrence gives on xs with the rate r / DecayDen
AccumulatedWith(xs, out, r) ==
    /\ Len(out) = Len(xs)
    /\ LET scale(whole) == IF normalize THEN <<whole * (DecayDen - r), DecayDen>>
                                        ELSE <<whole, 1>>
       IN  /\ FracEq(out[1], scale(xs[1]))
           /\ \A t \in 2..Len(xs) :
                 LET carried == PlusDecayed(0, r, out[t - 1])
                     own == scale(xs[t])
                 IN  FracEq(out[t], <<own[1] * carried[2] + carried[1] * own[2],
                                      own[2] * carried[2]>>)

\* C12: a call with decay_rate >= 1 raises or works with a rate clamped
\* below 1; it returns no sequence accumulated with a rate >= 1.
C12_InvalidDecayRejected ==
    (ads_pc # "called" /\ decay_rate >= DecayDen) =>
        \/ ads_pc = "raised"
        \/ \E r \in 0..(DecayDen - 1) : AccumulatedWith(x, adstocked, r)

----------------------------------------------------------------------------
(* Properties of hill_function and log_transform *)

HillDone == tr_pc \in {"hill", "done"}

\* C13: for K > 0 every value of hill_function on x >= 0 lies in [0, 1) and
\* the values are non-decreasing in x.
C13_HillBoundedMonotone ==
    (HillDone /\ hill_K > 0) =>
        /\ Len(hill_out) = Len(hx)
        /\ \A i \in 1..Len(hx) :
              /\ hill_out[i][2] > 0
              /\ hill_out[i][1] >= 0
              /\ hill_out[i][1] < hill_out[i][2]
        /\ \A i \in 1..Len(hx) : \A j \in 1..Len(hx) :
              hx[i] <= hx[j] =>
                 hill_out[i][1] * hill_out[j][2] <= hill_out[j][1] * hill_out[i][2]

C13_Witness ==
    /\ HillDone
    /\ hill_K > 0
    /\ hill_S > 1
    /\ \E i \in 1..Len(hx) : \E j \in 1..Len(hx) :
          /\ hx[i] > 0
          /\ hx[i] < hill_K
          /\ hill_K < hx[j]
          /\ hill_out[i][1] * hill_out[j][2] < hill_out[j][1] * hill_out[i][2]

\* C14: log_transform returns no -inf and no nan: an element with
\* x + offset <= 0 is rejected or guarded.
C14_LogGuarded ==
    tr_pc = "done" =>
        \A i \in 1..Len(hx) :
            hx[i] + log_offset <= 0 => log_out[i].kind = "finite"

----------------------------------------------------------------------------
(* Properties of calculate_expected_lift and of the change reports *)

\* The channels that add to F: those of elasticities with a current spend
\* other than 0
Counted == { ch \in DOMAIN rep_elasticities : Get(rep_current, ch, 0) # 0 }

RECURSIVE ProductOfCurrent(_)
ProductOfCurrent(chs) ==
    IF chs = {} THEN 1
    ELSE LET ch == CHOOSE c \in chs : TRUE
         IN  rep_current[ch] * ProductOfCurrent(chs \ {ch})

RECURSIVE SumOfTerms(_)
SumOfTerms(chs) ==
    IF chs = {} THEN 0
    ELSE LET ch == CHOOSE c \in chs : TRUE
         IN  rep_elasticities[ch] * (Get(rep_optimal, ch, 0) - rep_current[ch])
                * ProductOfCurrent(Counted \ {ch})
             + SumOfTerms(chs \ {ch})

\* F = sum of elasticity_i * (optimal_i - current_i) / current_i, as one
\* fraction over 10 * the product of the current spends counted
ExpectedF == <<SumOfTerms(Counted), 10 * ProductOfCurrent(Counted)>>

\* C15: lift_pct = 100 * F, expected_sales = current_sales * (1 + F) and
\* lift = expected_sales - current_sales, with F the sum over the channels of
\* elasticity * (optimal - current) / current, a channel with current spend 0
\* adding nothing.
C15_ExpectedLiftFormula ==
    rep_pc \notin {"idle", "called"} =>
        LET F == ExpectedF
        IN  /\ FracEq(lift.lift_pct, <<100 * F[1], F[2]>>)
            /\ FracEq(lift.expected_sales, <<current_sales * (F[2] + F[1]), F[2]>>)
            /\ FracEq(lift.lift, <<lift.expected_sales[1] - current_sales * lift.expected_sales[2],
                                   lift.expected_sales[2]>>)
            /\ lift.current_sales = current_sales

C15_Witness ==
    /\ rep_pc = "lift"
    /\ current_sales > 0
    /\ \E a \in DOMAIN rep_current : \E b \in DOMAIN rep_current :
          /\ rep_current[a] = 0
          /\ rep_optimal[a] > 0
          /\ rep_current[b] > 1
          /\ rep_optimal[b] # rep_current[b]
    /\ lift.lift[1] # 0

\* C16: in the API response, in the list of recommended changes and in the
\* exported plan a channel with current spend 0 has change 0, and no
\* division by zero takes place.
C16_ZeroSpendChangeIsZero ==
    /\ rep_pc # "raised"
    /\ \A ch \in DOMAIN rep_current :
          rep_current[ch] = 0 =>
             /\ rep_pc \in {"api", "page", "exported"} => api_changes[ch] = Finite(0, 1)
             /\ rep_pc \in {"page", "exported"} => page_changes[ch] = Finite(0, 1)
             /\ rep_pc = "exported" => export_rows[ch] = Finite(0, 1)

----------------------------------------------------------------------------
(* Properties of create_scenario, compare_scenarios and the scenario lists *)

\* C17: compare_scenarios returns one row per scenario, in the order of the
\* list, and the spend_<channel> columns of row i hold the values of the
\* spend_allocation the i-th scenario was created with.
C17_ScenarioTableCorrespondence ==
    table.made =>
        /\ Len(table.rows) = Len(scenarios)
        /\ Len(table_inputs) = Len(scenarios)
        /\ \A i \in 1..Len(scenarios) :
              /\ table.rows[i].scenario = scenarios[i].name
              /\ DOMAIN table.rows[i].spend = DOMAIN table_inputs[i]
              /\ \A ch \in DOMAIN table_inputs[i] :
                    table.rows[i].spend[ch] = table_inputs[i][ch]

\* C18: a stored scenario keeps the spend_allocation, total_spend and
\* projected_sales it was created with, whatever the caller does to its
\* dict afterwards and whatever is done to the list.
C18_ScenarioIsSnapshot ==
    \A i \in 1..Len(scenarios) :
        LET made == create_scenario(scenarios[i].name, created_with, i, sc_elasticities,
                                    baseline_sales)
        IN  /\ StoredAllocation(allocs, scenarios[i].spend_allocation) = created_with[i]
            /\ scenarios[i].total_spend = made.total_spend
            /\ scenarios[i].projected_sales = made.projected_sales

\* No two entries of the list have the same name
UniqueNames(list) ==
    \A i \in 1..Len(list) : \A j \in 1..Len(list) :
        i # j => list[i].name # list[j].name

\* C19: no two scenarios of a stored scenario list have the same name.
C19_ScenarioNamesUnique ==
    /\ UniqueNames(scenarios)
    /\ UniqueNames(page_scenarios)

----------------------------------------------------------------------------
(* Frame of the engines *)

\* A step of create_scenario or compare_scenarios: the list grows or the
\* table is made
ScenarioEngineStep == scenarios' # scenarios \/ table' # table

----------------------------------------------------------------------------
(* Further properties of compute_shapley_values *)

\* Every channel's value in res is its own entry of ce
OwnEffects(res, ce) ==
    \A i \in 1..Len(ce) : res.num[ce[i][1]] = res.den * ce[i][2]

\* C28: under the exact method every channel's Shapley value is that
\* channel's own entry of channel_effects, whatever the baseline and the
\* other channels' effects are.
C28_AdditiveShapleyCollapse ==
    /\ (FirstShapleyDone /\ shapley.method = "exact") => OwnEffects(shapley, channel_effects)
    /\ (shap_pc = "done" /\ shapley2.method = "exact") => OwnEffects(shapley2, channel_effects2)

C28_Witness ==
    /\ shap_pc = "done"
    /\ shapley.method = "exact"
    /\ baseline > 0
    /\ Len(channel_effects) >= 2
    /\ channel_effects[1][2] > 0
    /\ channel_effects[2][2] # channel_effects[1][2]
    /\ shapley.num[channel_effects[1][1]] > 0

----------------------------------------------------------------------------
(* Properties of compute_channel_contributions_loglog *)

\* C22: a channel_names list shorter or longer than the last dimension of
\* 'beta' ends in a failure; no statistics are returned for a part of the
\* coefficients.
C22_ChannelMismatchFails ==
    (cc_pc # "called" /\ Len(cc_names) # Len(cc_betas[1][1])) => cc_pc = "raised"

----------------------------------------------------------------------------
(* Properties of the dashboard session *)

\* C25: after any sequence of dashboard steps, the elasticities that Budget
\* Optimization and Scenario Planning read, and a stored optimization
\* result, were computed from the trace now stored in the session
C25_DerivedFollowTrace ==
    /\ dash_step \in {"optimize", "scenario"} =>
          read_elasticities = get_state(session, "trace")
    /\ get_state(session, "optimization_results") # None =>
          get_state(session, "optimization_results") = get_state(session, "trace")

ModelStateCleared(ss) ==
    /\ ss["model_trained"] = FALSE
    /\ ss["training_progress"] = 0
    /\ ss["scenarios"] = <<>>
    /\ \A k \in {"model", "trace", "elasticities", "contributions", "roi_estimates",
                 "model_metrics", "optimization_results"} : ss[k] = None

\* C26: immediately after a data load that worked (upload or sample) the
\* model state of the session is cleared, whatever the session held before
C26_NewDataClearsModelState ==
    dash_step \in {"upload", "sample"} => ModelStateCleared(session)

\* a load that worked on a session that held a trained model, elasticities,
\* an optimization result and scenarios
C26_Witness ==
    /\ dash_step \in {"upload", "sample"}
    /\ held_before
    /\ ModelStateCleared(session)

----------------------------------------------------------------------------
(* Properties of the backend session store *)

\* C29: when the train endpoint ends with an error, every key of the
\* session store has the value it had before the call
C29_FailedTrainingLeavesSession ==
    (api_response.endpoint = "train" /\ api_response.status # 200) =>
        ~ train_changed

\* C30: the channel list that results, optimize and scenario-create pair
\* with the stored coefficients is the channel list of the stored trace
C30_ChannelListMatchesTrace ==
    (api_response.endpoint \in {"results", "optimize", "scenario_create"}
        /\ api_response.status # 400) =>
        api_response.channels = session_data["trace"].channels

\* C21: every float in a body of results, optimize, scenario-create and
\* scenario-list is finite or null
C21_FiniteOutputs ==
    api_response.endpoint \in {"results", "optimize", "scenario_create", "scenario_list"} =>
        \A k \in DOMAIN api_response.body :
            api_response.body[k].kind \in {"finite", "null"}

----------------------------------------------------------------------------
(* Properties of the decomposition table *)

\* exp of the sum of every non-media component of the prediction, minus
\* the log offset
FullBaseline ==
    FracSub(Exp(dec_intercept + dec_trend + dec_seasonality + dec_events + dec_controls),
            <<1, 1>>)

\* C23: the baseline of a row is the exponentiated sum of intercept, trend,
\* seasonality, events and controls, minus the log offset, floored at 0,
\* and the total media effect is predicted minus that baseline (before
\* the floor)
C23_DecompositionBaseline ==
    dec_pc = "done" =>
        /\ FracEq(dec_row.baseline, FracMax0(FullBaseline))
        /\ FracEq(dec_effect, FracSub(dec_row.predicted, FullBaseline))

\* C24: a channel's credit is its share of the log-space contributions
\* times the total media effect (predicted minus the baseline of C23), 0
\* when the sum of the contributions is not positive, and never negative
C24_DecompositionCredit ==
    dec_pc = "done" =>
        \A j \in 1..Len(dec_media) :
            /\ dec_row.channels[j][1] >= 0
            /\ IF SumSeqFrom(dec_media, 1) > 0
               THEN FracEq(dec_row.channels[j],
                           FracMul(<<dec_media[j], SumSeqFrom(dec_media, 1)>>,
                                   FracSub(dec_row.predicted, FullBaseline)))
               ELSE dec_row.channels[j][1] = 0

----------------------------------------------------------------------------
(* Properties of the holdout transformations *)

\* C27: compute_holdout_metrics transforms each holdout channel with the
\* steps, the order and the parameters train_model used for that channel
C27_HoldoutUsesTrainingTransformations ==
    hold_pc = "done" =>
        /\ ~ holdout_out.error
        /\ \A i \in DOMAIN hold_config : holdout_out.steps[i] = train_out.steps[i]

====
